---- MODULE Spec2Model ----
(***************************************************************************)
(* Model of the Mermaid diagram generation service (llm-demo):             *)
(*   src/services/geminiService.js  prompt builder, extractor, ER          *)
(*                                  repairer, validator                    *)
(*   src/routes/diagramRoutes.js    POST /api/diagrams/generate, /validate *)
(*   src/scripts/setup.js           request schema, validateBody,          *)
(*                                  sanitizeInput, checkDescriptionContent *)
(*                                  and the setup wizard main()            *)
(*   src/config/config.js           the page script: form submission,      *)
(*                                  generateDiagram, displayDiagram, the   *)
(*                                  loading, error and success panels      *)
(*                                                                         *)
(* A JavaScript string is a sequence of one-character strings; the         *)
(* backtick, which a TLA+ string cannot hold, is the value BT.  null and   *)
(* values that are not strings are the model values below.                 *)
(***************************************************************************)
EXTENDS Integers, Sequences, FiniteSets, TLC

BT == "backtick"

\* Values that are not strings: each is a one-element sequence that no
\* string equals, since a character is a one-character string or BT.
Null == <<"null">>
Undefined == <<"undefined">>
NumberValue == <<"number">>
ObjectValue == <<"object">>
NonStrings == {Null, Undefined, NumberValue, ObjectValue}

\* ---------------------------------------------------------------------
\* JavaScript string primitives
\* ---------------------------------------------------------------------
UpperCase == <<"A", "B", "C", "D", "E", "F", "G", "H", "I", "J", "K", "L", "M", "N", "O", "P", "Q", "R", "S", "T", "U", "V", "W", "X", "Y", "Z">>
LowerCase == <<"a", "b", "c", "d", "e", "f", "g", "h", "i", "j", "k", "l", "m", "n", "o", "p", "q", "r", "s", "t", "u", "v", "w", "x", "y", "z">>
Digits == <<"0", "1", "2", "3", "4", "5", "6", "7", "8", "9">>

\* \w of a JavaScript regular expression
WordChars == {UpperCase[i] : i \in 1..26} \cup {LowerCase[i] : i \in 1..26} \cup {Digits[i] : i \in 1..10} \cup {"_"}

\* \s of a JavaScript regular expression, and the characters trim() removes
SpaceChars == {" ", "\t", "\n"}

\* [ \t] of the whitespace clean-up
BlankChars == {" ", "\t"}

toLowerChar(c) ==
  IF \E i \in 1..26 : UpperCase[i] = c
    THEN LowerCase[CHOOSE i \in 1..26 : UpperCase[i] = c]
    ELSE c

toLowerCase(s) == [i \in 1..Len(s) |-> toLowerChar(s[i])]

trim(s) ==
  IF \A i \in 1..Len(s) : s[i] \in SpaceChars
    THEN <<>>
    ELSE LET first == CHOOSE i \in 1..Len(s) : s[i] \notin SpaceChars /\ \A j \in 1..(i - 1) : s[j] \in SpaceChars
             last == CHOOSE i \in 1..Len(s) : s[i] \notin SpaceChars /\ \A j \in (i + 1)..Len(s) : s[j] \in SpaceChars
         IN  SubSeq(s, first, last)

startsWith(s, p) == Len(p) <= Len(s) /\ \A k \in 1..Len(p) : s[k] = p[k]

includes(s, p) == \E i \in 1..(Len(s) - Len(p) + 1) : \A k \in 1..Len(p) : s[i + k - 1] = p[k]

\* s.split('\n'): the pieces between consecutive newlines
RECURSIVE splitFrom(_, _)
splitFrom(s, i) ==
  LET nl == {j \in i..Len(s) : s[j] = "\n"} IN
  IF nl = {} THEN <<SubSeq(s, i, Len(s))>>
  ELSE LET j == CHOOSE j \in nl : \A k \in nl : j <= k
       IN  <<SubSeq(s, i, j - 1)>> \o splitFrom(s, j + 1)

split(s) == splitFrom(s, 1)

\* ---------------------------------------------------------------------
\* Regular expression matching.  A position is an index into the string,
\* Len(s) + 1 is the end of the string, 0 is "no match".  Every quantified
\* class of the service's expressions is followed by an element outside
\* the class (or ends the expression), so the greedy match is the maximal
\* run; the one exception, \s+\n, is matched with its backtracking.
\* ---------------------------------------------------------------------
runEnd(s, i, C) ==
  CHOOSE j \in i..(Len(s) + 1) :
    /\ \A k \in i..(j - 1) : s[k] \in C
    /\ (j = Len(s) + 1 \/ s[j] \notin C)

\* C+ at position i
plus(s, i, C) ==
  IF i = 0 THEN 0
  ELSE LET j == runEnd(s, i, C) IN IF j > i THEN j ELSE 0

\* C* at position i
star(s, i, C) == IF i = 0 THEN 0 ELSE runEnd(s, i, C)

\* a literal at position i
lit(s, i, p) ==
  IF i = 0 THEN 0
  ELSE IF i + Len(p) - 1 <= Len(s) /\ \A k \in 1..Len(p) : s[i + k - 1] = p[k] THEN i + Len(p) ELSE 0

\* a literal at position i under the i flag
litI(s, i, p) ==
  IF i = 0 THEN 0
  ELSE IF i + Len(p) - 1 <= Len(s) /\ \A k \in 1..Len(p) : toLowerChar(s[i + k - 1]) = toLowerChar(p[k])
    THEN i + Len(p) ELSE 0

\* String.prototype.replace with the g flag: m[i] is the position just past
\* the match that starts at i (0 when none), r[i] the text that replaces it.
\* The scan copies the text up to the next position where a match starts,
\* writes the replacement and resumes just past the match.
RECURSIVE replaceFrom(_, _, _, _)
replaceFrom(s, i, m, r) ==
  LET starts == {j \in i..Len(s) : m[j] > 0} IN
  IF starts = {} THEN SubSeq(s, i, Len(s))
  ELSE LET j == CHOOSE j \in starts : \A k \in starts : j <= k
       IN  SubSeq(s, i, j - 1) \o r[j] \o replaceFrom(s, m[j], m, r)

replaceAll(s, m, r) == replaceFrom(s, 1, m, r)

\* the same with a constant replacement
replaceWith(s, m, t) == replaceFrom(s, 1, m, [i \in 1..Len(s) |-> t])

\* ---------------------------------------------------------------------
\* extractMermaidCode
\* ---------------------------------------------------------------------
Fence == <<BT, BT, BT>>
FenceMermaid == <<BT, BT, BT>> \o <<"m", "e", "r", "m", "a", "i", "d">>

\* text.replace(/```mermaid\n?/g, '')
stripMermaidFences(s) ==
  replaceWith(s, [i \in 1..Len(s) |->
    LET a == lit(s, i, FenceMermaid) IN
    IF a = 0 THEN 0 ELSE IF lit(s, a, <<"\n">>) > 0 THEN a + 1 ELSE a], <<>>)

\* stripPlainFences without the g flag: only the first fence is removed
stripPlainFences_first(s) ==
  LET m == [i \in 1..Len(s) |->
             LET a == lit(s, i, Fence) IN
             IF a = 0 THEN 0 ELSE IF lit(s, a, <<"\n">>) > 0 THEN a + 1 ELSE a]
      starts == {j \in 1..Len(s) : m[j] > 0}
  IN  IF starts = {} THEN s
      ELSE LET j == CHOOSE j \in starts : \A k \in starts : j <= k
           IN  SubSeq(s, 1, j - 1) \o SubSeq(s, m[j], Len(s))

\* .replace(/```\n?/g, '')
stripPlainFences(s) ==
  replaceWith(s, [i \in 1..Len(s) |->
    LET a == lit(s, i, Fence) IN
    IF a = 0 THEN 0 ELSE IF lit(s, a, <<"\n">>) > 0 THEN a + 1 ELSE a], <<>>)

stripFences(s) == stripPlainFences(stripMermaidFences(s))

\* extractStarters with the validator's shorter list
extractStarters_nine ==
  << <<"g", "r", "a", "p", "h">>, <<"f", "l", "o", "w", "c", "h", "a", "r", "t">>, <<"c", "l", "a", "s", "s", "D", "i", "a", "g", "r", "a", "m">>, <<"s", "e", "q", "u", "e", "n", "c", "e", "D", "i", "a", "g", "r", "a", "m">>,
     <<"e", "r", "D", "i", "a", "g", "r", "a", "m">>, <<"s", "t", "a", "t", "e", "D", "i", "a", "g", "r", "a", "m">>, <<"g", "a", "n", "t", "t">>, <<"p", "i", "e">>, <<"j", "o", "u", "r", "n", "e", "y">> >>

extractStarters ==
  << <<"g", "r", "a", "p", "h">>, <<"f", "l", "o", "w", "c", "h", "a", "r", "t">>, <<"c", "l", "a", "s", "s", "D", "i", "a", "g", "r", "a", "m">>, <<"s", "e", "q", "u", "e", "n", "c", "e", "D", "i", "a", "g", "r", "a", "m">>,
     <<"e", "r", "D", "i", "a", "g", "r", "a", "m">>, <<"s", "t", "a", "t", "e", "D", "i", "a", "g", "r", "a", "m">>, <<"g", "a", "n", "t", "t">>, <<"p", "i", "e">>, <<"j", "o", "u", "r", "n", "e", "y">>,
     <<"g", "i", "t", "g", "r", "a", "p", "h">>, <<"m", "i", "n", "d", "m", "a", "p">>, <<"t", "i", "m", "e", "l", "i", "n", "e">> >>

\* extractMermaidCode that falls back to a default diagram instead of null
extractMermaidCode_default(text) ==
  LET code == trim(stripFences(text))
      lower == toLowerCase(code)
      startsWithValidType ==
        \E k \in 1..Len(extractStarters) : startsWith(lower, toLowerCase(extractStarters[k]))
  IN  IF ~startsWithValidType THEN <<"g", "r", "a", "p", "h", " ", "T", "D", "\n", " ", " ", "A", " ", "-", "-", ">", " ", "B">> ELSE code

extractMermaidCode(text) ==
  LET code == trim(stripFences(text))
      lower == toLowerCase(code)
      startsWithValidType ==
        \E k \in 1..Len(extractStarters) : startsWith(lower, toLowerCase(extractStarters[k]))
  IN  IF ~startsWithValidType THEN Null ELSE code

\* ---------------------------------------------------------------------
\* validateMermaidSyntax, validateERSyntax
\* ---------------------------------------------------------------------
validStarters ==
  << <<"g", "r", "a", "p", "h">>, <<"f", "l", "o", "w", "c", "h", "a", "r", "t">>, <<"c", "l", "a", "s", "s", "D", "i", "a", "g", "r", "a", "m">>, <<"s", "e", "q", "u", "e", "n", "c", "e", "D", "i", "a", "g", "r", "a", "m">>,
     <<"e", "r", "D", "i", "a", "g", "r", "a", "m">>, <<"s", "t", "a", "t", "e", "D", "i", "a", "g", "r", "a", "m">>, <<"g", "a", "n", "t", "t">>, <<"p", "i", "e">>, <<"j", "o", "u", "r", "n", "e", "y">> >>

\* /\w+\s*\{/.test(erCode)
hasEntities(erCode) ==
  \E i \in 1..Len(erCode) : lit(erCode, star(erCode, plus(erCode, i, WordChars), SpaceChars), <<"{">>) > 0

\* hasValidRelationships that asks for one of the three complete operators
hasValidRelationships_threeOnly(erCode) ==
  \/ includes(erCode, <<"|", "|", "-", "-", "o", "{">>)
  \/ includes(erCode, <<"|", "|", "-", "-", "|", "|">>)
  \/ includes(erCode, <<"}", "o", "-", "-", "o", "{">>)

\* /\|\|--|\}o--|\|\|--o\{|\}o--o\{/.test(erCode)
hasValidRelationships(erCode) ==
  \/ includes(erCode, <<"|", "|", "-", "-">>)
  \/ includes(erCode, <<"}", "o", "-", "-">>)
  \/ includes(erCode, <<"|", "|", "-", "-", "o", "{">>)
  \/ includes(erCode, <<"}", "o", "-", "-", "o", "{">>)

validateERSyntax(erCode) == hasEntities(erCode) \/ hasValidRelationships(erCode)

\* typeof v === 'string'
IsString(v) == v \notin NonStrings

nonBlankLines(s) == SelectSeq(split(s), LAMBDA line : Len(trim(line)) > 0)

\* validateMermaidSyntax without the test for a second non-blank line
validateMermaidSyntax_noLineCheck(mermaidCode) ==
  IF ~IsString(mermaidCode) \/ mermaidCode = <<>> THEN FALSE
  ELSE LET trimmed == trim(mermaidCode)
           lower == toLowerCase(trimmed)
           hasValidStarter ==
             \E k \in 1..Len(validStarters) : startsWith(lower, toLowerCase(validStarters[k]))
       IN  IF ~hasValidStarter THEN FALSE
           ELSE IF startsWith(lower, <<"e", "r", "d", "i", "a", "g", "r", "a", "m">>) THEN validateERSyntax(trimmed)
           ELSE TRUE

validateMermaidSyntax(mermaidCode) ==
  IF ~IsString(mermaidCode) \/ mermaidCode = <<>> THEN FALSE
  ELSE LET trimmed == trim(mermaidCode)
           lower == toLowerCase(trimmed)
           hasValidStarter ==
             \E k \in 1..Len(validStarters) : startsWith(lower, toLowerCase(validStarters[k]))
           lines == nonBlankLines(trimmed)
       IN  IF ~hasValidStarter THEN FALSE
           ELSE IF Len(lines) < 2 THEN FALSE
           ELSE IF startsWith(lower, <<"e", "r", "d", "i", "a", "g", "r", "a", "m">>) THEN validateERSyntax(trimmed)
           ELSE TRUE

\* ---------------------------------------------------------------------
\* fixERSyntax: the rewrites, in the order the code applies them
\* ---------------------------------------------------------------------
OneToMany == <<"|", "|", "-", "-", "o", "{">>
OneToOne == <<"|", "|", "-", "-", "|", "|">>
ManyToMany == <<"}", "o", "-", "-", "o", "{">>

\* '$2 ||--o{ $1 : categorizes'
flipped(g1, g2) == g2 \o <<" ", "|", "|", "-", "-", "o", "{", " ">> \o g1 \o <<" ", ":", " ", "c", "a", "t", "e", "g", "o", "r", "i", "z", "e", "s">>

\* fixBelongsTo that rewrites the label and keeps the entities where they are
fixBelongsTo_keepOrder(s) ==
  LET a(i) == plus(s, i, WordChars)
      d(i) == plus(s, lit(s, plus(s, a(i), SpaceChars), OneToMany), SpaceChars)
      e(i) == plus(s, d(i), WordChars)
      z(i) == litI(s, plus(s, litI(s, star(s, lit(s, star(s, e(i), SpaceChars), <<":">>), SpaceChars), <<"b", "e", "l", "o", "n", "g", "s">>), SpaceChars), <<"t", "o">>)
  IN  replaceAll(s, [i \in 1..Len(s) |-> z(i)],
                    [i \in 1..Len(s) |-> IF z(i) = 0 THEN <<>> ELSE flipped(SubSeq(s, d(i), e(i) - 1), SubSeq(s, i, a(i) - 1))])

\* /(\w+)\s+\|\|--o\{\s+(\w+)\s*:\s*belongs\s+to/gi
fixBelongsTo(s) ==
  LET a(i) == plus(s, i, WordChars)
      d(i) == plus(s, lit(s, plus(s, a(i), SpaceChars), OneToMany), SpaceChars)
      e(i) == plus(s, d(i), WordChars)
      z(i) == litI(s, plus(s, litI(s, star(s, lit(s, star(s, e(i), SpaceChars), <<":">>), SpaceChars), <<"b", "e", "l", "o", "n", "g", "s">>), SpaceChars), <<"t", "o">>)
  IN  replaceAll(s, [i \in 1..Len(s) |-> z(i)],
                    [i \in 1..Len(s) |-> IF z(i) = 0 THEN <<>> ELSE flipped(SubSeq(s, i, a(i) - 1), SubSeq(s, d(i), e(i) - 1))])

\* /(\w+)\s*\|\|--o\{\s*(\w+)\s*:\s*belongs\s+to/gi
fixRemainingBelongsTo(s) ==
  LET a(i) == plus(s, i, WordChars)
      d(i) == star(s, lit(s, star(s, a(i), SpaceChars), OneToMany), SpaceChars)
      e(i) == plus(s, d(i), WordChars)
      z(i) == litI(s, plus(s, litI(s, star(s, lit(s, star(s, e(i), SpaceChars), <<":">>), SpaceChars), <<"b", "e", "l", "o", "n", "g", "s">>), SpaceChars), <<"t", "o">>)
  IN  replaceAll(s, [i \in 1..Len(s) |-> z(i)],
                    [i \in 1..Len(s) |-> IF z(i) = 0 THEN <<>> ELSE flipped(SubSeq(s, i, a(i) - 1), SubSeq(s, d(i), e(i) - 1))])

\* /:\s*belongs\s+to\s*/gi  ->  ': categorizes'
fixStandaloneBelongsTo(s) ==
  replaceWith(s, [i \in 1..Len(s) |->
    star(s, litI(s, plus(s, litI(s, star(s, lit(s, i, <<":">>), SpaceChars), <<"b", "e", "l", "o", "n", "g", "s">>), SpaceChars), <<"t", "o">>), SpaceChars)],
    <<":", " ", "c", "a", "t", "e", "g", "o", "r", "i", "z", "e", "s">>)

\* /:\s*written\s+by/gi  ->  ': writes'
fixWrittenBy(s) ==
  replaceWith(s, [i \in 1..Len(s) |->
    litI(s, plus(s, litI(s, star(s, lit(s, i, <<":">>), SpaceChars), <<"w", "r", "i", "t", "t", "e", "n">>), SpaceChars), <<"b", "y">>)],
    <<":", " ", "w", "r", "i", "t", "e", "s">>)

\* /IDENTIFYING\s+/gi  ->  ''
removeIdentifying(s) ==
  replaceWith(s, [i \in 1..Len(s) |-> plus(s, litI(s, i, <<"I", "D", "E", "N", "T", "I", "F", "Y", "I", "N", "G">>), SpaceChars)], <<>>)

\* /(\w+)\s*:\s*belongs\s*to(\w+)/gi
fixMalformed(s) ==
  LET a(i) == plus(s, i, WordChars)
      d(i) == litI(s, star(s, litI(s, star(s, lit(s, star(s, a(i), SpaceChars), <<":">>), SpaceChars), <<"b", "e", "l", "o", "n", "g", "s">>), SpaceChars), <<"t", "o">>)
      z(i) == plus(s, d(i), WordChars)
  IN  replaceAll(s, [i \in 1..Len(s) |-> z(i)],
                    [i \in 1..Len(s) |-> IF z(i) = 0 THEN <<>> ELSE flipped(SubSeq(s, i, a(i) - 1), SubSeq(s, d(i), z(i) - 1))])

\* /(PRODUCT|Product|product)\s+\|\|--o\{\s+(CATEGORY|Category|category)\s*:\s*(\w+)/gi
reverseProductCategory(s) ==
  LET a(i) == litI(s, i, <<"p", "r", "o", "d", "u", "c", "t">>)
      d(i) == plus(s, lit(s, plus(s, a(i), SpaceChars), OneToMany), SpaceChars)
      e(i) == litI(s, d(i), <<"c", "a", "t", "e", "g", "o", "r", "y">>)
      z(i) == plus(s, star(s, lit(s, star(s, e(i), SpaceChars), <<":">>), SpaceChars), WordChars)
  IN  replaceAll(s, [i \in 1..Len(s) |-> z(i)],
                    [i \in 1..Len(s) |-> IF z(i) = 0 THEN <<>> ELSE flipped(SubSeq(s, i, a(i) - 1), SubSeq(s, d(i), e(i) - 1))])

\* replace(op, ' op ') for the three relationship symbols
spaceOperator(s, op) ==
  replaceWith(s, [i \in 1..Len(s) |-> lit(s, i, op)], <<" ">> \o op \o <<" ">>)

spaceOperators(s) == spaceOperator(spaceOperator(spaceOperator(s, OneToMany), OneToOne), ManyToMany)

\* /[ \t]+/g  ->  ' '
collapseBlanks(s) == replaceWith(s, [i \in 1..Len(s) |-> plus(s, i, BlankChars)], <<" ">>)

\* /\n\s+/g  ->  '\n'
stripAfterNewline(s) ==
  replaceWith(s, [i \in 1..Len(s) |-> plus(s, lit(s, i, <<"\n">>), SpaceChars)], <<"\n">>)

\* /\s+\n/g  ->  '\n': the greedy \s+ backs off to the last newline of the run
stripBeforeNewline(s) ==
  replaceWith(s, [i \in 1..Len(s) |->
    LET e == runEnd(s, i, SpaceChars)
        nl == {j \in (i + 1)..(e - 1) : s[j] = "\n"}
    IN  IF nl = {} THEN 0 ELSE (CHOOSE j \in nl : \A k \in nl : k <= j) + 1],
    <<"\n">>)

cleanSpaces(s) == stripBeforeNewline(stripAfterNewline(collapseBlanks(s)))

fixERSyntax(erCode) ==
  trim(cleanSpaces(spaceOperators(reverseProductCategory(fixMalformed(removeIdentifying(
    fixWrittenBy(fixStandaloneBelongsTo(fixRemainingBelongsTo(fixBelongsTo(erCode))))))))))

\* ---------------------------------------------------------------------
\* The type classifier and buildMermaidPrompt
\* ---------------------------------------------------------------------
erKeywords ==
  << <<"e", "n", "t", "i", "t", "y">>, <<"e", "n", "t", "i", "t", "i", "e", "s">>, <<"r", "e", "l", "a", "t", "i", "o", "n", "s", "h", "i", "p">>, <<"d", "a", "t", "a", "b", "a", "s", "e">>, <<"s", "c", "h", "e", "m", "a">>, <<"t", "a", "b", "l", "e">>, <<"t", "a", "b", "l", "e", "s">>,
     <<"c", "u", "s", "t", "o", "m", "e", "r">>, <<"o", "r", "d", "e", "r">>, <<"p", "r", "o", "d", "u", "c", "t">>, <<"u", "s", "e", "r">>, <<"p", "o", "s", "t">>, <<"c", "o", "m", "m", "e", "n", "t">>, <<"c", "a", "t", "e", "g", "o", "r", "y">>,
     <<"f", "o", "r", "e", "i", "g", "n", " ", "k", "e", "y">>, <<"p", "r", "i", "m", "a", "r", "y", " ", "k", "e", "y">>, <<"o", "n", "e", "-", "t", "o", "-", "m", "a", "n", "y">>, <<"m", "a", "n", "y", "-", "t", "o", "-", "m", "a", "n", "y">>, <<"o", "n", "e", "-", "t", "o", "-", "o", "n", "e">> >>

classKeywords ==
  << <<"c", "l", "a", "s", "s">>, <<"c", "l", "a", "s", "s", "e", "s">>, <<"i", "n", "h", "e", "r", "i", "t", "a", "n", "c", "e">>, <<"m", "e", "t", "h", "o", "d">>, <<"m", "e", "t", "h", "o", "d", "s">>, <<"p", "r", "o", "p", "e", "r", "t", "y">>, <<"p", "r", "o", "p", "e", "r", "t", "i", "e", "s">>,
     <<"o", "b", "j", "e", "c", "t">>, <<"o", "b", "j", "e", "c", "t", "s">>, <<"e", "x", "t", "e", "n", "d", "s">>, <<"i", "m", "p", "l", "e", "m", "e", "n", "t", "s">>, <<"i", "n", "t", "e", "r", "f", "a", "c", "e">>, <<"a", "b", "s", "t", "r", "a", "c", "t">> >>

sequenceKeywords ==
  << <<"s", "e", "q", "u", "e", "n", "c", "e">>, <<"i", "n", "t", "e", "r", "a", "c", "t", "i", "o", "n">>, <<"m", "e", "s", "s", "a", "g", "e">>, <<"a", "c", "t", "o", "r">>, <<"p", "a", "r", "t", "i", "c", "i", "p", "a", "n", "t">>, <<"t", "i", "m", "e", "l", "i", "n", "e">>,
     <<"r", "e", "q", "u", "e", "s", "t">>, <<"r", "e", "s", "p", "o", "n", "s", "e">>, <<"c", "a", "l", "l">>, <<"i", "n", "v", "o", "k", "e">>, <<"s", "e", "n", "d">>, <<"r", "e", "c", "e", "i", "v", "e">> >>

\* keywords.some(keyword => lowerDesc.includes(keyword))
someIncluded(lowerDesc, keywords) == \E k \in 1..Len(keywords) : includes(lowerDesc, keywords[k])

isERDescription(description) ==
  LET lowerDesc == toLowerCase(description)
  IN  someIncluded(lowerDesc, erKeywords) \/ includes(lowerDesc, <<"e", "r", " ", "d", "i", "a", "g", "r", "a", "m">>) \/ includes(lowerDesc, <<"e", "r", "d">>)

isClassDescription(description) ==
  LET lowerDesc == toLowerCase(description)
  IN  someIncluded(lowerDesc, classKeywords) \/ includes(lowerDesc, <<"c", "l", "a", "s", "s", " ", "d", "i", "a", "g", "r", "a", "m">>) \/ includes(lowerDesc, <<"u", "m", "l">>)

isSequenceDescription(description) ==
  LET lowerDesc == toLowerCase(description)
  IN  someIncluded(lowerDesc, sequenceKeywords) \/ includes(lowerDesc, <<"s", "e", "q", "u", "e", "n", "c", "e", " ", "d", "i", "a", "g", "r", "a", "m">>)

DiagramTypes == {"auto", "flowchart", "class", "sequence", "er", "state", "gantt"}

\* specificGuidance with the class test before the ER test
specificGuidance_classFirst(description, diagramType) ==
  IF diagramType = "class" \/ (diagramType = "auto" /\ isClassDescription(description)) THEN "CLASS"
  ELSE IF diagramType = "er" \/ (diagramType = "auto" /\ isERDescription(description)) THEN "ER"
  ELSE IF diagramType = "sequence" \/ (diagramType = "auto" /\ isSequenceDescription(description)) THEN "SEQUENCE"
  ELSE ""

\* specificGuidance that consults the keywords whatever type was requested
specificGuidance_keywordsAlways(description, diagramType) ==
  IF diagramType = "er" \/ isERDescription(description) THEN "ER"
  ELSE IF diagramType = "class" \/ isClassDescription(description) THEN "CLASS"
  ELSE IF diagramType = "sequence" \/ isSequenceDescription(description) THEN "SEQUENCE"
  ELSE ""

\* specificGuidance with the sequence test before the class test
specificGuidance_sequenceFirst(description, diagramType) ==
  IF diagramType = "er" \/ (diagramType = "auto" /\ isERDescription(description)) THEN "ER"
  ELSE IF diagramType = "sequence" \/ (diagramType = "auto" /\ isSequenceDescription(description)) THEN "SEQUENCE"
  ELSE IF diagramType = "class" \/ (diagramType = "auto" /\ isClassDescription(description)) THEN "CLASS"
  ELSE ""

\* The guidance block appended to the prompt: "ER", "CLASS", "SEQUENCE" name
\* the three blocks of the source, "" is the empty specificGuidance.
specificGuidance(description, diagramType) ==
  IF diagramType = "er" \/ (diagramType = "auto" /\ isERDescription(description)) THEN "ER"
  ELSE IF diagramType = "class" \/ (diagramType = "auto" /\ isClassDescription(description)) THEN "CLASS"
  ELSE IF diagramType = "sequence" \/ (diagramType = "auto" /\ isSequenceDescription(description)) THEN "SEQUENCE"
  ELSE ""

\* The prompt is the fixed text with three holes: the format selection
\* line, the guidance block and the user's description.
buildMermaidPrompt(description, diagramType) ==
  [ formatSelection |-> IF diagramType # "auto" THEN <<"User requested", diagramType>> ELSE <<"Auto-detect">>,
    guidance |-> specificGuidance(description, diagramType),
    description |-> description ]

\* ---------------------------------------------------------------------
\* schemas.generateDiagram, validateRequest
\* ---------------------------------------------------------------------
\* A diagramType is a value of its own, never read character by character:
\* TypeAbsent is the field left out of the body, TypeNotString a value that
\* is not a string.
TypeAbsent == "(absent)"
TypeNotString == "(number)"

\* Joi.string().min(10).max(2000).required()
MinLength == 10
MaxLength == 2000

\* descriptionErrors without the minimum length
descriptionErrors_noMin(description) ==
  IF description = Undefined THEN <<"any.required">>
  ELSE IF ~IsString(description) THEN <<"string.base">>
  ELSE IF description = <<>> THEN <<"string.empty">>
  ELSE IF Len(description) > MaxLength THEN <<"string.max">>
  ELSE <<>>

descriptionErrors(description) ==
  IF description = Undefined THEN <<"any.required">>
  ELSE IF ~IsString(description) THEN <<"string.base">>
  ELSE IF description = <<>> THEN <<"string.empty">>
  ELSE IF Len(description) < MinLength THEN <<"string.min">>
  ELSE IF Len(description) > MaxLength THEN <<"string.max">>
  ELSE <<>>

\* Joi.string().valid('auto', 'flowchart', 'class', 'sequence', 'er', 'state', 'gantt').default('auto')
diagramTypeErrors(type) ==
  IF type = TypeAbsent \/ type \in DiagramTypes THEN <<>> ELSE <<"any.only">>

defaultType(type) == IF type = TypeAbsent THEN "auto" ELSE type

\* schema.validate(data, { abortEarly: false, stripUnknown: true }): every
\* error of the body, and the body with its defaults filled in
validateRequest(data) ==
  [error |-> descriptionErrors(data.description) \o diagramTypeErrors(data.diagramType),
   value |-> [description |-> data.description, diagramType |-> defaultType(data.diagramType)]]

\* ---------------------------------------------------------------------
\* sanitizeInput, checkDescriptionContent
\* ---------------------------------------------------------------------
\* /<script\b[^<]*(?:(?!<\/script>)<[^<]*)*<\/script>/gi: from "<script" at
\* a word boundary up to and including the first "</script>" after it
removeScriptTags(s) ==
  replaceWith(s, [i \in 1..Len(s) |->
    LET a == litI(s, i, <<"<", "s", "c", "r", "i", "p", "t">>)
        closers == {j \in a..Len(s) : litI(s, j, <<"<", "/", "s", "c", "r", "i", "p", "t", ">">>) > 0}
    IN  IF a = 0 \/ (a <= Len(s) /\ s[a] \in WordChars) \/ closers = {} THEN 0
        ELSE (CHOOSE j \in closers : \A k \in closers : j <= k) + 9],
    <<>>)

\* /javascript:/gi
removeJavascriptProtocol(s) == replaceWith(s, [i \in 1..Len(s) |-> litI(s, i, <<"j", "a", "v", "a", "s", "c", "r", "i", "p", "t", ":">>)], <<>>)

\* /on\w+\s*=/gi
removeEventHandlers(s) ==
  replaceWith(s, [i \in 1..Len(s) |->
    lit(s, star(s, plus(s, litI(s, i, <<"o", "n">>), WordChars), SpaceChars), <<"=">>)], <<>>)

sanitizeInput(input) ==
  IF ~IsString(input) THEN <<>>
  ELSE trim(removeEventHandlers(removeJavascriptProtocol(removeScriptTags(input))))

VeryLong == 1500

confusingTerms == << <<"a", "n", "d", "/", "o", "r">>, <<"m", "a", "y", "b", "e">>, <<"p", "o", "s", "s", "i", "b", "l", "y">>, <<"s", "o", "m", "e", "t", "i", "m", "e", "s">> >>
diagramKeywords == << <<"f", "l", "o", "w", "c", "h", "a", "r", "t">>, <<"c", "l", "a", "s", "s", " ", "d", "i", "a", "g", "r", "a", "m">>, <<"s", "e", "q", "u", "e", "n", "c", "e">>, <<"e", "n", "t", "i", "t", "y", " ", "r", "e", "l", "a", "t", "i", "o", "n", "s", "h", "i", "p">>, <<"s", "t", "a", "t", "e", " ", "m", "a", "c", "h", "i", "n", "e">> >>

\* the warnings of checkDescriptionContent, in the order they are pushed
checkDescriptionContent(description) ==
  LET lower == toLowerCase(description)
      mentionedTypes == {k \in 1..Len(diagramKeywords) : includes(lower, diagramKeywords[k])}
  IN  (IF Len(description) > VeryLong THEN <<"long">> ELSE <<>>)
      \o (IF someIncluded(lower, confusingTerms) THEN <<"ambiguous">> ELSE <<>>)
      \o (IF Cardinality(mentionedTypes) > 1 THEN <<"multiple">> ELSE <<>>)

\* ---------------------------------------------------------------------
\* generateMermaidDiagram, from the text the generation API resolved with
\* to the value it returns or the error it throws
\* ---------------------------------------------------------------------
ErrorPrefix == <<"F", "a", "i", "l", "e", "d", " ", "t", "o", " ", "g", "e", "n", "e", "r", "a", "t", "e", " ", "d", "i", "a", "g", "r", "a", "m", ":", " ">>
ExtractionError == <<"F", "a", "i", "l", "e", "d", " ", "t", "o", " ", "g", "e", "n", "e", "r", "a", "t", "e", " ", "v", "a", "l", "i", "d", " ", "M", "e", "r", "m", "a", "i", "d", " ", "c", "o", "d", "e">>

\* catch (error) { throw new Error(`Failed to generate diagram: ${error.message}`) }
rethrow(message) ==
  [threw |-> TRUE, message |-> ErrorPrefix \o message, value |-> Undefined,
   extracted |-> Undefined, fixed |-> Undefined, calls |-> <<>>]

\* revertIfInvalid without the revert: the fixed code is always kept
revertIfInvalid_keepFixed(originalCode, fixed) == fixed

\* lines 40-43: the fixed code is kept only when it validates
revertIfInvalid(originalCode, fixed) == IF ~validateMermaidSyntax(fixed) THEN originalCode ELSE fixed

\* isERCode that takes every diagram for an ER diagram
isERCode_always(mermaidCode) == TRUE

\* mermaidCode.toLowerCase().trim().startsWith('erdiagram')
isERCode(mermaidCode) == startsWith(trim(toLowerCase(mermaidCode)), <<"e", "r", "d", "i", "a", "g", "r", "a", "m">>)

\* The try block after the API resolved with text.  Besides what the call
\* returns (value) or throws (threw, message) the record keeps what the call
\* did: the extracted code, the code fixERSyntax returned when it ran, and
\* the methods called, in order.
generateMermaidDiagram(text) ==
  LET mermaidCode == extractMermaidCode(text)
  IN  IF mermaidCode = Null \/ mermaidCode = <<>>
        THEN [rethrow(ExtractionError) EXCEPT !.extracted = mermaidCode, !.calls = <<"extractMermaidCode">>]
      ELSE IF isERCode(mermaidCode)
        THEN LET originalCode == mermaidCode
                 fixed == fixERSyntax(mermaidCode)
             IN  [threw |-> FALSE, message |-> <<>>,
                  value |-> revertIfInvalid(originalCode, fixed),
                  extracted |-> mermaidCode, fixed |-> fixed,
                  calls |-> <<"extractMermaidCode", "fixERSyntax", "validateMermaidSyntax">>]
      ELSE [threw |-> FALSE, message |-> <<>>, value |-> mermaidCode,
            extracted |-> mermaidCode, fixed |-> Undefined, calls |-> <<"extractMermaidCode">>]

\* ---------------------------------------------------------------------
\* Bounds and inputs
\* ---------------------------------------------------------------------
\* whitespace characters put before and after a text
MaxPad == 1
\* words in a description
MaxWords == 2
\* generate requests the browser client starts in one behaviour
MaxRequests == 3

\* the twelve diagram declarations a generated text may open with
RecognizedHeaders ==
  << <<"g", "r", "a", "p", "h">>, <<"f", "l", "o", "w", "c", "h", "a", "r", "t">>, <<"c", "l", "a", "s", "s", "D", "i", "a", "g", "r", "a", "m">>, <<"s", "e", "q", "u", "e", "n", "c", "e", "D", "i", "a", "g", "r", "a", "m">>, <<"e", "r", "D", "i", "a", "g", "r", "a", "m">>, <<"s", "t", "a", "t", "e", "D", "i", "a", "g", "r", "a", "m">>,
     <<"g", "a", "n", "t", "t">>, <<"p", "i", "e">>, <<"j", "o", "u", "r", "n", "e", "y">>, <<"g", "i", "t", "g", "r", "a", "p", "h">>, <<"m", "i", "n", "d", "m", "a", "p">>, <<"t", "i", "m", "e", "l", "i", "n", "e">> >>

\* ER declarations in several letter cases, and one that only starts like one
ERHeaders == { <<"e", "r", "D", "i", "a", "g", "r", "a", "m">>, <<"E", "R", "D", "I", "A", "G", "R", "A", "M">>, <<"e", "r", "D", "i", "a", "g", "r", "a", "m", "X">> }

\* the other declarations, one of them behind a fence of its own, and text
\* that is no declaration
OtherHeaders ==
  ({RecognizedHeaders[k] : k \in 1..Len(RecognizedHeaders)} \ { <<"e", "r", "D", "i", "a", "g", "r", "a", "m">> })
    \cup { <<"G", "r", "a", "p", "h">>, Fence \o <<"\n", "f", "l", "o", "w", "c", "h", "a", "r", "t">>, <<"S", "u", "r", "e", "!", " ", "H", "e", "r", "e", " ", "i", "s", " ", "e", "r", "D", "i", "a", "g", "r", "a", "m">>, <<"d", "i", "a", "g", "r", "a", "m">>, <<>> }

\* what follows an ER declaration
ERBodies ==
  { <<>>,
    <<"\n", " ", " ", "P", "R", "O", "D", "U", "C", "T", " ", "|", "|", "-", "-", "o", "{", " ", "C", "A", "T", "E", "G", "O", "R", "Y", " ", ":", " ", "b", "e", "l", "o", "n", "g", "s", " ", "t", "o">>,
    <<"\n", "C", "U", "S", "T", "O", "M", "E", "R", " ", "{", "\n", " ", " ", "i", "n", "t", " ", "i", "d", "\n", "}">>,
    <<" ", "I", "D", "E", "N", "T", "I", "F", "Y", "I", "N", "G", "\n", "A", " ", "|", "|", "-", "-", "o", "{", " ", "B", " ", ":", " ", "h", "a", "s">>,
    <<"\n", "A", " ", ":", " ", "b", "e", "l", "o", "n", "g", "s", "t", "o", "B">>,
    <<"\n", "A", " ", "|", "|", "-", "-", "|", "{", " ", "B", " ", ":", " ", "h", "a", "s">>,
    <<"\n", "{", "\n", "}">>,
    <<"\n", " ", "\n", "\t", "\n">>,
    <<"\n", "A", " ", "}", "o", "-", "-", "o", "{", " ", "B", " ", ":", " ", "l", "i", "n", "k", "s">>,
    <<"\n", "B", "O", "O", "K", " ", "|", "|", "-", "-", "|", "|", " ", "A", "U", "T", "H", "O", "R", " ", ":", " ", "w", "r", "i", "t", "t", "e", "n", " ", "b", "y">>,
    <<"\n", "f", "o", "o", " ", "b", "a", "r">> }

\* what follows another declaration
OtherBodies ==
  { <<>>,
    <<" ", "T", "D", "\n", " ", " ", "A", " ", "-", "-", ">", " ", "B">>,
    <<"\n", " ", "\n", "\t", "\n">>,
    <<"\n", " ", " ", "P", "R", "O", "D", "U", "C", "T", " ", "|", "|", "-", "-", "o", "{", " ", "C", "A", "T", "E", "G", "O", "R", "Y", " ", ":", " ", "b", "e", "l", "o", "n", "g", "s", " ", "t", "o">>,
    <<"\n", " ", " ", "B", "O", "O", "K", " ", "|", "|", "-", "-", "|", "|", " ", "A", "U", "T", "H", "O", "R", " ", ":", " ", "w", "r", "i", "t", "t", "e", "n", " ", "b", "y", " ", "I", "D", "E", "N", "T", "I", "F", "Y", "I", "N", "G", " ", "x">>,
    <<"\n", " ", " ", "A", " ", "-", "-", ">", " ", "B", "\n">> \o FenceMermaid,
    <<"\n", " ", " ", "A", " ", "-", "-", ">", " ", "B">> \o <<BT, BT>> }

RECURSIVE repeat(_, _)
repeat(c, n) == IF n = 0 THEN <<>> ELSE <<c>> \o repeat(c, n - 1)

Pads == {repeat(c, n) : c \in {" ", "\n"}, n \in 0..MaxPad}

Diagrams ==
  {h \o b : h \in ERHeaders, b \in ERBodies} \cup {h \o b : h \in OtherHeaders, b \in OtherBodies}

Texts == {l \o d \o t : l \in Pads, d \in Diagrams, t \in {<<>>, <<" ", "\n">>}}

\* a text inside a code fence: the opening fence line, the text, the closing fence line
fenced(tag, t) == Fence \o tag \o <<"\n">> \o t \o <<"\n">> \o Fence

FenceTags == { <<>>, <<"m", "e", "r", "m", "a", "i", "d">> }

\* the tags of the fences the extractor is applied to: those two and the
\* tags of other languages
LanguageTags == FenceTags \cup { <<"t", "e", "x", "t">>, <<"j", "s">> }

\* what the generation API resolves with
RawTexts ==
  {h \o b : h \in { <<"e", "r", "D", "i", "a", "g", "r", "a", "m">>, <<"E", "r", "D", "i", "a", "g", "r", "a", "m">> }, b \in ERBodies}
    \cup {h \o b : h \in { <<"g", "r", "a", "p", "h">>, <<"m", "i", "n", "d", "m", "a", "p">>, <<"S", "u", "r", "e", "!", " ", "H", "e", "r", "e", " ", "i", "s", " ", "e", "r", "D", "i", "a", "g", "r", "a", "m">> }, b \in OtherBodies}
    \cup {fenced( <<"m", "e", "r", "m", "a", "i", "d">>, <<"e", "r", "D", "i", "a", "g", "r", "a", "m">> \o b) : b \in ERBodies}

\* entity names of a relationship line
EntityNames ==
  { <<"O", "R", "D", "E", "R">>, <<"P", "R", "O", "D", "U", "C", "T">>, <<"p", "r", "o", "d", "u", "c", "t">>, <<"C", "A", "T", "E", "G", "O", "R", "Y">>, <<"C", "a", "t", "e", "g", "o", "r", "y">>, <<"X", "P", "R", "O", "D", "U", "C", "T">>, <<"I", "D", "E", "N", "T", "I", "F", "Y", "I", "N", "G">> }

\* relationship labels: one word, several words, quoted, and the labels the
\* repairer rewrites
Labels ==
  { <<"b", "e", "l", "o", "n", "g", "s", " ", "t", "o">>, <<"B", "E", "L", "O", "N", "G", "S", " ", "T", "O">>, <<"h", "a", "s">>, <<"i", "s", " ", "p", "a", "r", "t", " ", "o", "f">>, <<"w", "r", "i", "t", "t", "e", "n", " ", "b", "y">>, <<"\"", "h", "a", "s", "\"">>,
    <<"I", "D", "E", "N", "T", "I", "F", "Y", "I", "N", "G", " ", "b", "e", "l", "o", "n", "g", "s", " ", "t", "o">> }

\* what follows the relationship line
Tails == { <<>>, <<"\n", " ", " ", "O", "R", "D", "E", "R", " ", "|", "|", "-", "-", "o", "{", " ", "I", "T", "E", "M", " ", ":", " ", "c", "o", "n", "t", "a", "i", "n", "s">> }

\* the line 'A ||--o{ B : label'
relationLine(a, b, label) == a \o <<" ", "|", "|", "-", "-", "o", "{", " ">> \o b \o <<" ", ":", " ">> \o label

\* an ER diagram of one relationship line and what follows it
relationText(a, b, label, tail) == <<"e", "r", "D", "i", "a", "g", "r", "a", "m", "\n", " ", " ">> \o relationLine(a, b, label) \o tail

\* the malformed phrase 'X : belongs toY' as the line of an ER diagram
malformedText(x, y, tail) == <<"e", "r", "D", "i", "a", "g", "r", "a", "m", "\n", " ", " ">> \o x \o <<" ", ":", " ", "b", "e", "l", "o", "n", "g", "s", " ", "t", "o">> \o y \o tail

\* bodies with IDENTIFYING in the middle of a line, at the end of a line and
\* at the end of the text, with labels before a line break, and with blank lines
RepairBodies ==
  { <<"\n", " ", " ", "A", " ", "I", "D", "E", "N", "T", "I", "F", "Y", "I", "N", "G", " ", "|", "|", "-", "-", "o", "{", " ", "B", " ", ":", " ", "h", "a", "s">>,
    <<"\n", " ", " ", "A", " ", "|", "|", "-", "-", "o", "{", " ", "B", " ", ":", " ", "h", "a", "s", " ", "I", "D", "E", "N", "T", "I", "F", "Y", "I", "N", "G", "\n", " ", " ", "C", " ", "|", "|", "-", "-", "o", "{", " ", "D", " ", ":", " ", "h", "a", "s">>,
    <<"\n", " ", " ", "A", " ", "|", "|", "-", "-", "o", "{", " ", "B", " ", ":", " ", "h", "a", "s", " ", "I", "D", "E", "N", "T", "I", "F", "Y", "I", "N", "G">>,
    <<"\n", " ", " ", "A", " ", "|", "|", "-", "-", "|", "|", " ", "B", " ", ":", " ", "b", "e", "l", "o", "n", "g", "s", " ", "t", "o", "\n", " ", " ", "C", " ", "|", "|", "-", "-", "o", "{", " ", "D", " ", ":", " ", "h", "a", "s">>,
    <<"\n", " ", " ", "A", " ", "}", "o", "-", "-", "o", "{", " ", "B", " ", ":", " ", "w", "r", "i", "t", "t", "e", "n", " ", "b", "y", "\n", " ", " ", "C", " ", "|", "|", "-", "-", "o", "{", " ", "D", " ", ":", " ", "h", "a", "s">>,
    <<"\n", " ", " ", "B", "O", "O", "K", " ", "|", "|", "-", "-", "|", "|", " ", "A", "U", "T", "H", "O", "R", " ", ":", " ", "w", "r", "i", "t", "t", "e", "n", " ", "I", "D", "E", "N", "T", "I", "F", "Y", "I", "N", "G", " ", "b", "y">>,
    <<"\n", "\n", " ", " ", "A", " ", "|", "|", "-", "-", "o", "{", " ", "B", " ", ":", " ", "h", "a", "s", "\n", "\n", "\n", " ", " ", "C", " ", "|", "|", "-", "-", "o", "{", " ", "D", " ", ":", " ", "h", "a", "s">> }

\* the texts the repairer is applied to
RepairTexts ==
  {relationText(a, b, l, t) : a \in EntityNames, b \in EntityNames, l \in Labels, t \in Tails}
    \cup {malformedText(x, y, t) : x \in EntityNames, y \in EntityNames, t \in Tails}
    \cup { <<"e", "r", "D", "i", "a", "g", "r", "a", "m">> \o b : b \in ERBodies \cup RepairBodies}

\* messages of the errors the generation API rejects with
UpstreamErrors ==
  { <<"A", "P", "I", " ", "k", "e", "y", " ", "n", "o", "t", " ", "v", "a", "l", "i", "d", ".", " ", "P", "l", "e", "a", "s", "e", " ", "p", "a", "s", "s", " ", "a", " ", "v", "a", "l", "i", "d", " ", "A", "P", "I", " ", "k", "e", "y", ".">>,
    <<"R", "e", "s", "o", "u", "r", "c", "e", " ", "h", "a", "s", " ", "b", "e", "e", "n", " ", "e", "x", "h", "a", "u", "s", "t", "e", "d", " ", "(", "e", ".", "g", ".", " ", "c", "h", "e", "c", "k", " ", "q", "u", "o", "t", "a", ")", ".">>,
    <<"R", "a", "t", "e", " ", "l", "i", "m", "i", "t", " ", "r", "e", "a", "c", "h", "e", "d">>,
    <<"T", "h", "e", " ", "q", "u", "o", "t", "a", " ", "o", "f", " ", "t", "h", "i", "s", " ", "A", "P", "I", " ", "k", "e", "y", " ", "i", "s", " ", "u", "s", "e", "d", " ", "u", "p">>,
    <<"f", "e", "t", "c", "h", " ", "f", "a", "i", "l", "e", "d">> }

Words ==
  { <<"a">>, <<"C", "u", "s", "t", "o", "m", "e", "r">>, <<"O", "r", "d", "e", "r">>, <<"c", "l", "a", "s", "s">>, <<"U", "M", "L">>, <<"s", "e", "n", "d", "s">>, <<"m", "e", "s", "s", "a", "g", "e">>, <<"h", "e", "r", "d">>, <<"c", "o", "f", "f", "e", "e">> }

RECURSIVE phrases(_)
phrases(n) ==
  IF n = 0 THEN {<<>>}
  ELSE phrases(n - 1) \cup {p \o (IF p = <<>> THEN <<>> ELSE <<" ">>) \o w : p \in phrases(n - 1), w \in Words}

Descriptions == phrases(MaxWords)

\* a description of n characters
longDescription(n) == [i \in 1..n |-> IF i % 6 = 0 THEN " " ELSE "a"]

\* descriptions the schema accepts: two ordinary ones, one of exactly
\* MinLength and one of exactly MaxLength characters, one that is mostly
\* padding and one that the sanitizer shortens
RequestDescriptions ==
  { <<"C", "u", "s", "t", "o", "m", "e", "r", "s", " ", "p", "l", "a", "c", "e", " ", "o", "r", "d", "e", "r", "s", " ", "f", "o", "r", " ", "p", "r", "o", "d", "u", "c", "t", "s">>,
    <<"M", "a", "k", "e", " ", "c", "o", "f", "f", "e", "e", ":", " ", "b", "o", "i", "l", " ", "w", "a", "t", "e", "r", ",", " ", "b", "r", "e", "w", ",", " ", "s", "e", "r", "v", "e">>,
    <<"D", "r", "a", "w", " ", "a", " ", "m", "a", "p">>,
    longDescription(MaxLength),
    <<" ", " ", " ", "f", "l", "o", "w", " ", " ", " ", " ", " ">>,
    <<"j", "a", "v", "a", "s", "c", "r", "i", "p", "t", ":", "o", "n", "l", "o", "a", "d", "=", "x">> }

\* description fields the schema rejects: absent, not a string, empty, one
\* character too short, one character too long
BadDescriptions ==
  { Undefined, NumberValue, <<>>, <<"T", "o", "o", " ", "s", "h", "o", "r", "t">>, longDescription(MaxLength + 1) }

\* diagramType fields the schema rejects: not in the list, a listed type in
\* another letter case, not a string
BadTypes == { "pie", "AUTO", TypeNotString }

\* request bodies of POST /api/diagrams/generate: every description with
\* diagramType auto and with none, and every diagramType with one accepted
\* and one rejected description
RequestBodies ==
  [description : RequestDescriptions \cup BadDescriptions, diagramType : {"auto", TypeAbsent}]
    \cup [description : { <<"C", "u", "s", "t", "o", "m", "e", "r", "s", " ", "p", "l", "a", "c", "e", " ", "o", "r", "d", "e", "r", "s", " ", "f", "o", "r", " ", "p", "r", "o", "d", "u", "c", "t", "s">>, <<"T", "o", "o", " ", "s", "h", "o", "r", "t">> },
          diagramType : DiagramTypes \cup BadTypes]

\* ---------------------------------------------------------------------
\* State
\* ---------------------------------------------------------------------
VARIABLES
  pc,                     \* "idle", "awaiting" (the handler waits for the API), "responded"
  requestBody,            \* req.body as the client sent it
  sanitizedDescription,   \* the description handed to the service
  diagramType,            \* req.body.diagramType after validation
  prompt,                 \* the prompt sent to the API
  warnings,               \* contentCheck.warnings
  calls,                  \* the service and API calls of the current request, in order
  rawText,                \* the text the API resolved with
  extracted,              \* what extractMermaidCode returned
  fixedCode,              \* what fixERSyntax returned, when it ran
  outcome,                \* what generateMermaidDiagram returned or threw
  response,               \* the HTTP response
  sent,                   \* how many responses the current request was answered with
  fn,                     \* the function applied to an input text
  arg,                    \* that input
  out,                    \* and its result
  wpc,                    \* setup wizard: the question main() waits at, "start" or "closed"
  envFile,                \* setup wizard: the .env file
  logsDir,                \* setup wizard: whether the logs directory exists
  envWrites,              \* setup wizard: how often main() wrote the .env file
  answers,                \* setup wizard: what the user answered so far
  ui,                     \* browser client: the three panels and the Generate button
  requests                \* browser client: how far each generate request has come

serverVars == <<pc, requestBody, sanitizedDescription, diagramType, prompt, warnings, calls, rawText, extracted, fixedCode, outcome, response, sent>>
fnVars == <<fn, arg, out>>
wizardVars == <<wpc, envFile, logsDir, envWrites, answers>>
clientVars == <<ui, requests>>
toolVars == <<wizardVars, clientVars>>
vars == <<pc, requestBody, sanitizedDescription, diagramType, prompt, warnings, calls, rawText, extracted, fixedCode, outcome, response, sent, fn, arg, out, wpc, envFile, logsDir, envWrites, answers, ui, requests>>

NoPrompt == [formatSelection |-> <<>>, guidance |-> "", description |-> <<>>]
NoBody == [description |-> Undefined, diagramType |-> TypeAbsent]
NoOutcome == [threw |-> FALSE, message |-> <<>>, value |-> Undefined]
NoResponse == [status |-> 0, success |-> FALSE, error |-> "", mermaidCode |-> Undefined, diagramType |-> ""]

ServerIdle ==
  /\ pc = "idle"
  /\ requestBody = NoBody
  /\ sanitizedDescription = <<>>
  /\ diagramType = ""
  /\ prompt = NoPrompt
  /\ warnings = <<>>
  /\ calls = <<>>
  /\ rawText = Undefined
  /\ extracted = Undefined
  /\ fixedCode = Undefined
  /\ outcome = NoOutcome
  /\ response = NoResponse
  /\ sent = 0

FnIdle == fn = "" /\ arg = Undefined /\ out = Undefined

\* no .env file
NoEnv == [exists |-> FALSE, apiKey |-> <<>>, port |-> <<>>, nodeEnv |-> <<>>, corsOrigins |-> <<>>]
\* nothing answered yet
NoAnswers == [overwrite |-> Undefined, apiKey |-> Undefined, port |-> Undefined, nodeEnv |-> Undefined, corsOrigins |-> Undefined]
\* the page as loaded, before any listener has run: the script shows no
\* panel and disables nothing while it loads
PageLoaded ==
  [loadingState |-> "none", errorState |-> "none", successState |-> "none", disabled |-> FALSE,
   errorMessage |-> "", diagramPreview |-> ""]
NoRequests == [i \in 1..MaxRequests |-> "none"]

WizardIdle == wpc = "start" /\ envFile = NoEnv /\ logsDir = FALSE /\ envWrites = 0 /\ answers = NoAnswers
ClientIdle == ui = PageLoaded /\ requests = NoRequests

\* ---------------------------------------------------------------------
\* POST /api/diagrams/generate
\* ---------------------------------------------------------------------
\* ValidateBodyRejects that answers 400 and calls next() all the same
ValidateBodyRejects_andNext(body) ==
  /\ pc = "idle" /\ fn = ""
  /\ validateRequest(body).error # <<>>
  /\ pc' = "awaiting"
  /\ requestBody' = body
  /\ response' = [status |-> 400, success |-> FALSE, error |-> "Validation failed", mermaidCode |-> Undefined, diagramType |-> ""]
  /\ sent' = sent + 1
  /\ UNCHANGED <<sanitizedDescription, diagramType, prompt, warnings, calls, rawText, extracted, fixedCode, outcome>>
  /\ UNCHANGED <<fnVars, toolVars>>

\* validateBody answers a body the schema rejects; the handler does not run
ValidateBodyRejects(body) ==
  /\ pc = "idle" /\ fn = ""
  /\ validateRequest(body).error # <<>>
  /\ pc' = "responded"
  /\ requestBody' = body
  /\ response' = [status |-> 400, success |-> FALSE, error |-> "Validation failed", mermaidCode |-> Undefined, diagramType |-> ""]
  /\ sent' = sent + 1
  /\ UNCHANGED <<sanitizedDescription, diagramType, prompt, warnings, calls, rawText, extracted, fixedCode, outcome>>
  /\ UNCHANGED <<fnVars, toolVars>>

\* validateBody passes the validated body on; the handler runs up to its
\* await: sanitize, check the content, build the prompt and call the
\* generation API.
PostGenerate(body) ==
  LET validated == validateRequest(body)
      sanitized == sanitizeInput(validated.value.description)
      type == validated.value.diagramType
  IN  /\ pc = "idle" /\ fn = ""
      /\ validated.error = <<>>
      /\ pc' = "awaiting"
      /\ requestBody' = body
      /\ sanitizedDescription' = sanitized
      /\ diagramType' = type
      /\ warnings' = checkDescriptionContent(sanitized)
      /\ prompt' = buildMermaidPrompt(sanitized, type)
      /\ calls' = <<"buildMermaidPrompt", "generateContent">>
      /\ UNCHANGED <<rawText, extracted, fixedCode, outcome, response, sent>>
      /\ UNCHANGED <<fnVars, toolVars>>

\* errorResponse that tests for the quota before the API key
errorResponse_quotaFirst(message) ==
  IF includes(message, <<"q", "u", "o", "t", "a">>) \/ includes(message, <<"l", "i", "m", "i", "t">>)
    THEN [status |-> 429, success |-> FALSE, error |-> "Rate limit exceeded", mermaidCode |-> Undefined, diagramType |-> ""]
  ELSE IF includes(message, <<"A", "P", "I", " ", "k", "e", "y">>)
    THEN [status |-> 401, success |-> FALSE, error |-> "Authentication failed", mermaidCode |-> Undefined, diagramType |-> ""]
  ELSE [status |-> 500, success |-> FALSE, error |-> "Internal server error", mermaidCode |-> Undefined, diagramType |-> ""]

\* the catch block of the route
errorResponse(message) ==
  IF includes(message, <<"A", "P", "I", " ", "k", "e", "y">>)
    THEN [status |-> 401, success |-> FALSE, error |-> "Authentication failed", mermaidCode |-> Undefined, diagramType |-> ""]
  ELSE IF includes(message, <<"q", "u", "o", "t", "a">>) \/ includes(message, <<"l", "i", "m", "i", "t">>)
    THEN [status |-> 429, success |-> FALSE, error |-> "Rate limit exceeded", mermaidCode |-> Undefined, diagramType |-> ""]
  ELSE [status |-> 500, success |-> FALSE, error |-> "Internal server error", mermaidCode |-> Undefined, diagramType |-> ""]

\* reportedType that echoes the type, auto included
reportedType_echo(type) == type

\* diagramType === 'auto' ? 'auto-detected' : diagramType
reportedType(type) == IF type = "auto" THEN "auto-detected" ELSE type

\* successResponse without the validation of the generated code
successResponse_unchecked(mermaidCode, type) ==
  [status |-> 200, success |-> TRUE, error |-> "", mermaidCode |-> mermaidCode,
   diagramType |-> reportedType(type)]

\* the route after the service returned mermaidCode
successResponse(mermaidCode, type) ==
  IF ~validateMermaidSyntax(mermaidCode)
    THEN [status |-> 500, success |-> FALSE, error |-> "Generated diagram code is invalid", mermaidCode |-> Undefined, diagramType |-> ""]
    ELSE [status |-> 200, success |-> TRUE, error |-> "", mermaidCode |-> mermaidCode,
          diagramType |-> reportedType(type)]

\* The API resolves with text: the rest of generateMermaidDiagram and of the
\* route handler run to the response.
GenerateContentResolves(text) ==
  LET result == generateMermaidDiagram(text) IN
  /\ pc = "awaiting"
  /\ pc' = "responded"
  /\ rawText' = text
  /\ extracted' = result.extracted
  /\ fixedCode' = result.fixed
  /\ outcome' = [threw |-> result.threw, message |-> result.message, value |-> result.value]
  /\ calls' = calls \o result.calls \o (IF result.threw THEN <<>> ELSE <<"validateMermaidSyntax">>)
  /\ response' = IF result.threw THEN errorResponse(result.message)
                 ELSE successResponse(result.value, diagramType)
  /\ sent' = sent + 1
  /\ UNCHANGED <<requestBody, sanitizedDescription, diagramType, prompt, warnings>>
  /\ UNCHANGED <<fnVars, toolVars>>

\* GenerateContentRejects that calls the API a second time before it gives up
GenerateContentRejects_retry(message) ==
  LET result == rethrow(message) IN
  /\ pc = "awaiting"
  /\ IF Len(calls) < 3
       THEN /\ pc' = "awaiting"
            /\ calls' = calls \o <<"generateContent">>
            /\ UNCHANGED <<outcome, response, sent>>
       ELSE /\ pc' = "responded"
            /\ outcome' = [threw |-> result.threw, message |-> result.message, value |-> result.value]
            /\ response' = errorResponse(result.message)
            /\ sent' = sent + 1
            /\ UNCHANGED calls
  /\ UNCHANGED <<requestBody, sanitizedDescription, diagramType, prompt, warnings, rawText, extracted, fixedCode>>
  /\ UNCHANGED <<fnVars, toolVars>>

\* The API rejects: the service rethrows, the route answers from its catch block.
GenerateContentRejects(message) ==
  LET result == rethrow(message) IN
  /\ pc = "awaiting"
  /\ pc' = "responded"
  /\ outcome' = [threw |-> result.threw, message |-> result.message, value |-> result.value]
  /\ response' = errorResponse(result.message)
  /\ sent' = sent + 1
  /\ UNCHANGED <<requestBody, sanitizedDescription, diagramType, prompt, warnings, calls, rawText, extracted, fixedCode>>
  /\ UNCHANGED <<fnVars, toolVars>>

\* ---------------------------------------------------------------------
\* POST /api/diagrams/validate
\* ---------------------------------------------------------------------
\* postValidate that only tests the type of mermaidCode
postValidate_typeOnly(mermaidCode) ==
  IF ~IsString(mermaidCode)
    THEN [status |-> 400, success |-> FALSE, error |-> "Invalid input", isValid |-> Undefined, codeLength |-> 0, lineCount |-> 0]
    ELSE [status |-> 200, success |-> TRUE, error |-> "", isValid |-> validateMermaidSyntax(mermaidCode),
          codeLength |-> Len(mermaidCode), lineCount |-> Len(split(mermaidCode))]

\* the response of the handler to a body whose mermaidCode field is the
\* argument (Undefined: the field is absent)
postValidate(mermaidCode) ==
  IF ~IsString(mermaidCode) \/ mermaidCode = <<>>
    THEN [status |-> 400, success |-> FALSE, error |-> "Invalid input", isValid |-> Undefined, codeLength |-> 0, lineCount |-> 0]
    ELSE [status |-> 200, success |-> TRUE, error |-> "", isValid |-> validateMermaidSyntax(mermaidCode),
          codeLength |-> Len(mermaidCode), lineCount |-> Len(split(mermaidCode))]

\* the handler of POST /api/diagrams/validate, for a body whose mermaidCode
\* field is the argument
PostValidate(mermaidCode) ==
  /\ pc = "idle" /\ fn = ""
  /\ fn' = "postValidate"
  /\ arg' = mermaidCode
  /\ out' = postValidate(mermaidCode)
  /\ sent' = sent + 1
  /\ UNCHANGED <<pc, requestBody, sanitizedDescription, diagramType, prompt, warnings, calls, rawText, extracted, fixedCode, outcome, response>>
  /\ UNCHANGED toolVars

\* the mermaidCode fields of the bodies sent to POST /api/diagrams/validate
ValidateCodes == Texts \cup NonStrings

Init == ServerIdle /\ FnIdle /\ WizardIdle /\ ClientIdle

Next ==
  \/ \E body \in RequestBodies : ValidateBodyRejects(body)
  \/ \E body \in RequestBodies : PostGenerate(body)
  \/ \E text \in RawTexts : GenerateContentResolves(text)
  \/ \E m \in UpstreamErrors : GenerateContentRejects(m)
  \/ \E code \in ValidateCodes : PostValidate(code)

Spec == Init /\ [][Next]_vars

\* ---------------------------------------------------------------------
\* The service's functions applied to one input
\* ---------------------------------------------------------------------
ExtractMermaidCode ==
  /\ fn = ""
  /\ IsString(arg)
  /\ fn' = "extractMermaidCode"
  /\ out' = extractMermaidCode(arg)
  /\ UNCHANGED <<arg, serverVars, toolVars>>

\* extractMermaidCode applied to the input inside a code fence
ExtractFenced(tag) ==
  /\ fn = ""
  /\ IsString(arg)
  /\ fn' = "extractFenced"
  /\ out' = [tag |-> tag, text |-> fenced(tag, arg), result |-> extractMermaidCode(fenced(tag, arg))]
  /\ UNCHANGED <<arg, serverVars, toolVars>>

ValidateMermaidSyntax ==
  /\ fn = ""
  /\ fn' = "validateMermaidSyntax"
  /\ out' = validateMermaidSyntax(arg)
  /\ UNCHANGED <<arg, serverVars, toolVars>>

InitFn == ServerIdle /\ WizardIdle /\ ClientIdle /\ fn = "" /\ out = Undefined /\ arg \in Texts \cup NonStrings

NextFn ==
  \/ ExtractMermaidCode
  \/ \E tag \in LanguageTags : ExtractFenced(tag)
  \/ ValidateMermaidSyntax

SpecFn == InitFn /\ [][NextFn]_vars

\* buildMermaidPrompt applied to a description and a diagram type
BuildMermaidPrompt ==
  /\ fn = ""
  /\ fn' = "buildMermaidPrompt"
  /\ out' = buildMermaidPrompt(arg.description, arg.diagramType)
  /\ UNCHANGED <<arg, serverVars, toolVars>>

InitPrompt ==
  /\ ServerIdle /\ WizardIdle /\ ClientIdle /\ fn = "" /\ out = Undefined
  /\ arg \in [description : Descriptions, diagramType : DiagramTypes]

NextPrompt == BuildMermaidPrompt

SpecPrompt == InitPrompt /\ [][NextPrompt]_vars

\* ---------------------------------------------------------------------
\* fixERSyntax applied to a text, and then to its own result
\* ---------------------------------------------------------------------
FixERSyntax ==
  /\ fn = ""
  /\ fn' = "fixERSyntax"
  /\ out' = fixERSyntax(arg)
  /\ UNCHANGED <<arg, serverVars, toolVars>>

FixERSyntaxAgain ==
  /\ fn = "fixERSyntax"
  /\ fn' = "fixERSyntaxAgain"
  /\ out' = [first |-> out, second |-> fixERSyntax(out)]
  /\ UNCHANGED <<arg, serverVars, toolVars>>

InitRepair == ServerIdle /\ WizardIdle /\ ClientIdle /\ fn = "" /\ out = Undefined /\ arg \in RepairTexts

NextRepair == FixERSyntax \/ FixERSyntaxAgain

SpecRepair == InitRepair /\ [][NextRepair]_vars

\* ---------------------------------------------------------------------
\* The setup wizard: main() of src/scripts/setup.js.  Each action is main()
\* from one await of question() to the next, or to its return.
\* ---------------------------------------------------------------------
\* a .env file that was there before the wizard ran
OldEnv ==
  [exists |-> TRUE, apiKey |-> <<"o", "l", "d", "-", "k", "e", "y">>, port |-> <<"8", "0", "8", "0">>, nodeEnv |-> <<"p", "r", "o", "d", "u", "c", "t", "i", "o", "n">>,
   corsOrigins |-> <<"h", "t", "t", "p", "s", ":", "/", "/", "e", "x", "a", "m", "p", "l", "e", ".", "o", "r", "g">>]

\* what the user types at the questions
OverwriteAnswers == { <<"y">>, <<"Y">>, <<"n">>, <<"y", "e", "s">>, <<>> }
ApiKeyAnswers == { <<"A", "I", "z", "a", "-", "k", "e", "y">>, <<" ", "k", " ">>, <<" ", " ">>, <<>> }
PortAnswers == { <<"8", "0", "8", "1">>, <<>> }
NodeEnvAnswers == { <<"p", "r", "o", "d", "u", "c", "t", "i", "o", "n">>, <<>> }
CorsAnswers == { <<"h", "t", "t", "p", "s", ":", "/", "/", "a", "p", "p", ".", "e", "x", "a", "m", "p", "l", "e">>, <<>> }

\* question(...) || fallback
orDefault(answer, fallback) == IF answer = <<>> THEN fallback ELSE answer

\* main() up to its first question
Main ==
  /\ wpc = "start"
  /\ wpc' = IF envFile.exists THEN "askOverwrite" ELSE "askApiKey"
  /\ UNCHANGED <<envFile, logsDir, envWrites, answers>>
  /\ UNCHANGED <<serverVars, fnVars, clientVars>>

\* AnswerOverwrite that goes on whatever the answer is
AnswerOverwrite_anyAnswer(answer) ==
  /\ wpc = "askOverwrite"
  /\ answers' = [answers EXCEPT !.overwrite = answer]
  /\ wpc' = "askApiKey"
  /\ UNCHANGED <<envFile, logsDir, envWrites>>
  /\ UNCHANGED <<serverVars, fnVars, clientVars>>

\* 'Do you want to overwrite it? (y/N): '
AnswerOverwrite(answer) ==
  /\ wpc = "askOverwrite"
  /\ answers' = [answers EXCEPT !.overwrite = answer]
  /\ wpc' = IF toLowerCase(answer) # <<"y">> THEN "closed" ELSE "askApiKey"
  /\ UNCHANGED <<envFile, logsDir, envWrites>>
  /\ UNCHANGED <<serverVars, fnVars, clientVars>>

\* 'Enter your Google Gemini API key: '
AnswerApiKey(answer) ==
  /\ wpc = "askApiKey"
  /\ answers' = [answers EXCEPT !.apiKey = answer]
  /\ wpc' = IF trim(answer) = <<>> THEN "closed" ELSE "askPort"
  /\ UNCHANGED <<envFile, logsDir, envWrites>>
  /\ UNCHANGED <<serverVars, fnVars, clientVars>>

\* 'Enter port number (default: 3000): '
AnswerPort(answer) ==
  /\ wpc = "askPort"
  /\ answers' = [answers EXCEPT !.port = orDefault(answer, <<"3", "0", "0", "0">>)]
  /\ wpc' = "askNodeEnv"
  /\ UNCHANGED <<envFile, logsDir, envWrites>>
  /\ UNCHANGED <<serverVars, fnVars, clientVars>>

\* 'Enter environment (development/production, default: development): '
AnswerNodeEnv(answer) ==
  /\ wpc = "askNodeEnv"
  /\ answers' = [answers EXCEPT !.nodeEnv = orDefault(answer, <<"d", "e", "v", "e", "l", "o", "p", "m", "e", "n", "t">>)]
  /\ wpc' = "askCorsOrigins"
  /\ UNCHANGED <<envFile, logsDir, envWrites>>
  /\ UNCHANGED <<serverVars, fnVars, clientVars>>

\* 'Enter allowed CORS origins ...' and the rest of main(): the .env file is
\* written, which succeeds or throws, and after a successful write the logs
\* directory is created when it is missing, which succeeds or throws too.
AnswerCorsOrigins(answer, writeSucceeds, mkdirSucceeds) ==
  LET corsOrigins == orDefault(answer, <<"h", "t", "t", "p", ":", "/", "/", "l", "o", "c", "a", "l", "h", "o", "s", "t", ":", "3", "0", "0", "0">>) IN
  /\ wpc = "askCorsOrigins"
  /\ answers' = [answers EXCEPT !.corsOrigins = corsOrigins]
  /\ wpc' = "closed"
  /\ IF writeSucceeds
       THEN /\ envFile' = [exists |-> TRUE, apiKey |-> answers.apiKey, port |-> answers.port,
                           nodeEnv |-> answers.nodeEnv, corsOrigins |-> corsOrigins]
            /\ envWrites' = envWrites + 1
            /\ logsDir' = (logsDir \/ mkdirSucceeds)
       ELSE UNCHANGED <<envFile, envWrites, logsDir>>
  /\ UNCHANGED <<serverVars, fnVars, clientVars>>

InitSetup ==
  /\ ServerIdle /\ FnIdle /\ ClientIdle
  /\ wpc = "start" /\ envWrites = 0 /\ answers = NoAnswers
  /\ envFile \in {NoEnv, OldEnv}
  /\ logsDir \in BOOLEAN

NextSetup ==
  \/ Main
  \/ \E a \in OverwriteAnswers : AnswerOverwrite(a)
  \/ \E a \in ApiKeyAnswers : AnswerApiKey(a)
  \/ \E a \in PortAnswers : AnswerPort(a)
  \/ \E a \in NodeEnvAnswers : AnswerNodeEnv(a)
  \/ \E a \in CorsAnswers, w \in BOOLEAN, m \in BOOLEAN : AnswerCorsOrigins(a, w, m)

SpecSetup == InitSetup /\ [][NextSetup]_vars

\* ---------------------------------------------------------------------
\* The browser client (the page script in src/config/config.js).  A
\* request is "none" (not started), "fetching" (await fetch), "parsing"
\* (await response.json()), "rendering" (await mermaid.render), "fallback"
\* (await mermaid.init), "shown" (ended in showSuccess) or "failed" (ended
\* in showError).  Each action is one turn of the event loop: a listener,
\* or the continuation of generateDiagram after one of its awaits.
\* ---------------------------------------------------------------------
hideAllStates(u) == [u EXCEPT !.loadingState = "none", !.errorState = "none", !.successState = "none"]

resetButtonState(u) == [u EXCEPT !.disabled = FALSE]

showLoading(u) == [hideAllStates(u) EXCEPT !.loadingState = "block", !.disabled = TRUE]

\* showError that leaves the button as it is
showError_noReset(u, message) == [hideAllStates(u) EXCEPT !.errorState = "block", !.errorMessage = message]

showError(u, message) == resetButtonState([hideAllStates(u) EXCEPT !.errorState = "block", !.errorMessage = message])

showSuccess(u) == resetButtonState([hideAllStates(u) EXCEPT !.successState = "block"])

\* what the description field holds when the user submits
FieldTexts == { <<>>, <<" ", " ", " ">>, <<" ", " ", "s", "h", "o", "r", "t", " ", " ">>, <<"D", "r", "a", "w", " ", "a", " ", "l", "o", "g", "i", "n", " ", "f", "l", "o", "w", "c", "h", "a", "r", "t">> }

InFlight(r) == {i \in 1..MaxRequests : r[i] \in {"fetching", "parsing", "rendering", "fallback"}}
NotStarted(r) == {i \in 1..MaxRequests : r[i] = "none"}

\* handleFormSubmit up to its first await, as a step from (ui, requests) to
\* (ui, requests): the two early returns, or showLoading() and the fetch
handleFormSubmit(state, field) ==
  LET description == trim(field) IN
  IF description = <<>>
    THEN [ui |-> showError(state.ui, "Please enter a description for your diagram."), requests |-> state.requests]
  ELSE IF Len(description) < 10
    THEN [ui |-> showError(state.ui, "Description must be at least 10 characters long."), requests |-> state.requests]
    ELSE LET i == CHOOSE i \in NotStarted(state.requests) : \A j \in NotStarted(state.requests) : i <= j
         IN  [ui |-> showLoading(state.ui), requests |-> [state.requests EXCEPT ![i] = "fetching"]]

\* the submit event of the form: a click on the Generate button, which a
\* disabled button does not deliver
SubmitForm(field) ==
  LET after == handleFormSubmit([ui |-> ui, requests |-> requests], field) IN
  /\ ~ui.disabled
  /\ NotStarted(requests) # {}
  /\ ui' = after.ui
  /\ requests' = after.requests
  /\ UNCHANGED <<serverVars, fnVars, wizardVars>>

\* Ctrl/Cmd+Enter in the description field: the keydown listener of the
\* textarea calls handleFormSubmit, the event bubbles to the keydown listener
\* of the document, which calls it again
CtrlEnter(field) ==
  LET first == handleFormSubmit([ui |-> ui, requests |-> requests], field)
      second == handleFormSubmit(first, field)
  IN  /\ Cardinality(NotStarted(requests)) >= 2
      /\ ui' = second.ui
      /\ requests' = second.requests
      /\ UNCHANGED <<serverVars, fnVars, wizardVars>>

\* fetch resolves: generateDiagram goes on to await response.json()
FetchResolves(i) ==
  /\ requests[i] = "fetching"
  /\ requests' = [requests EXCEPT ![i] = "parsing"]
  /\ UNCHANGED ui
  /\ UNCHANGED <<serverVars, fnVars, wizardVars>>

\* fetch rejects (network error): the catch block of generateDiagram
FetchRejects(i) ==
  /\ requests[i] = "fetching"
  /\ requests' = [requests EXCEPT ![i] = "failed"]
  /\ ui' = showError(ui, "Failed to fetch")
  /\ UNCHANGED <<serverVars, fnVars, wizardVars>>

\* response.json() resolves: with success false generateDiagram throws into
\* its catch block, with success true displayDiagram empties the preview,
\* appends the container and runs up to await mermaid.render
ParseResolves(i, success) ==
  /\ requests[i] = "parsing"
  /\ IF success
       THEN requests' = [requests EXCEPT ![i] = "rendering"] /\ ui' = [ui EXCEPT !.diagramPreview = "container"]
       ELSE requests' = [requests EXCEPT ![i] = "failed"] /\ ui' = showError(ui, "result.details || result.error")
  /\ UNCHANGED <<serverVars, fnVars, wizardVars>>

\* response.json() rejects (the body is no JSON)
ParseRejects(i) ==
  /\ requests[i] = "parsing"
  /\ requests' = [requests EXCEPT ![i] = "failed"]
  /\ ui' = showError(ui, "Unexpected token in JSON")
  /\ UNCHANGED <<serverVars, fnVars, wizardVars>>

\* mermaid.render resolves: the rest of displayDiagram; updateMetadata
\* throws when the data lacks a field it reads, which the catch block of
\* displayDiagram answers with showError
RenderResolves(i, metadataOk) ==
  LET drawn == [ui EXCEPT !.diagramPreview = "svg"] IN
  /\ requests[i] = "rendering"
  /\ requests' = [requests EXCEPT ![i] = IF metadataOk THEN "shown" ELSE "failed"]
  /\ ui' = IF metadataOk THEN showSuccess(drawn) ELSE showError(drawn, "Failed to render diagram. Error: updateMetadata")
  /\ UNCHANGED <<serverVars, fnVars, wizardVars>>

\* mermaid.render rejects: displayDiagram falls back to await mermaid.init
RenderRejects(i) ==
  /\ requests[i] = "rendering"
  /\ requests' = [requests EXCEPT ![i] = "fallback"]
  /\ ui' = [ui EXCEPT !.diagramPreview = "div.mermaid"]
  /\ UNCHANGED <<serverVars, fnVars, wizardVars>>

\* mermaid.init resolves
FallbackResolves(i, metadataOk) ==
  /\ requests[i] = "fallback"
  /\ requests' = [requests EXCEPT ![i] = IF metadataOk THEN "shown" ELSE "failed"]
  /\ ui' = IF metadataOk THEN showSuccess(ui) ELSE showError(ui, "Failed to render diagram. Error: updateMetadata")
  /\ UNCHANGED <<serverVars, fnVars, wizardVars>>

\* mermaid.init rejects: the catch block of displayDiagram
FallbackRejects(i) ==
  /\ requests[i] = "fallback"
  /\ requests' = [requests EXCEPT ![i] = "failed"]
  /\ ui' = showError(ui, "Failed to render diagram. Error: mermaid.init")
  /\ UNCHANGED <<serverVars, fnVars, wizardVars>>

\* clearError(), which the page markup wires to a control of its own: the
\* panels are hidden, the button and the requests stay as they are
ClearError ==
  /\ ui' = hideAllStates(ui)
  /\ UNCHANGED requests
  /\ UNCHANGED <<serverVars, fnVars, wizardVars>>

\* a pending promise of some request settles
Settle ==
  \E i \in 1..MaxRequests :
    \/ FetchResolves(i)
    \/ FetchRejects(i)
    \/ \E success \in BOOLEAN : ParseResolves(i, success)
    \/ ParseRejects(i)
    \/ \E metadataOk \in BOOLEAN : RenderResolves(i, metadataOk)
    \/ RenderRejects(i)
    \/ \E metadataOk \in BOOLEAN : FallbackResolves(i, metadataOk)
    \/ FallbackRejects(i)

InitClient == ServerIdle /\ FnIdle /\ WizardIdle /\ ClientIdle

NextClient ==
  \/ \E field \in FieldTexts : SubmitForm(field)
  \/ \E field \in FieldTexts : CtrlEnter(field)
  \/ ClearError
  \/ Settle

SpecClient == InitClient /\ [][NextClient]_vars

\* the same with the promises of the fetch and of the rendering settling
SpecClientLive == SpecClient /\ WF_vars(Settle)

\* ---------------------------------------------------------------------
\* Vocabulary of the properties
\* ---------------------------------------------------------------------
StartsWithRecognizedHeader(text) ==
  \E k \in 1..Len(RecognizedHeaders) : startsWith(toLowerCase(text), toLowerCase(RecognizedHeaders[k]))

\* the header of the text is erDiagram, in any letter case
IsERText(text) == startsWith(toLowerCase(trim(text)), <<"e", "r", "d", "i", "a", "g", "r", "a", "m">>)

\* the number of lines that hold a character other than whitespace
NonBlankLineCount(text) ==
  Cardinality({k \in 1..Len(split(text)) : \E i \in 1..Len(split(text)[k]) : split(text)[k][i] \notin SpaceChars})

\* a word character followed, after optional whitespace, by an opening brace
ContainsWordThenBrace(text) ==
  \E i \in 1..Len(text) : \E j \in (i + 1)..Len(text) :
    /\ text[i] \in WordChars
    /\ text[j] = "{"
    /\ \A k \in (i + 1)..(j - 1) : text[k] \in SpaceChars

\* the text after the erDiagram header
ERBody(text) == SubSeq(trim(text), 10, Len(trim(text)))

Called(name) == \E k \in 1..Len(calls) : calls[k] = name

\* how often the current request called the generation API
ApiCalls == Cardinality({k \in 1..Len(calls) : calls[k] = "generateContent"})

\* the request bodies the schema is to reject: no description, one shorter
\* than 10 or longer than 2000 characters, or a diagramType that is present
\* and not one of the seven
MustBeRejected(body) ==
  \/ body.description = Undefined
  \/ (IsString(body.description) /\ (Len(body.description) < 10 \/ Len(body.description) > 2000))
  \/ body.diagramType \notin {"auto", "flowchart", "class", "sequence", "er", "state", "gantt", TypeAbsent}

\* the text holds a relationship label of the two words: a colon, optional
\* whitespace, the first word, whitespace, the second word, in any letter case
HasLabel(text, first, second) ==
  \E i \in 1..Len(text) :
    litI(text, plus(text, litI(text, star(text, lit(text, i, <<":">>), SpaceChars), first), SpaceChars), second) > 0

\* the text holds the word between characters that are not word characters
HasStandaloneWord(text, word) ==
  \E i \in 1..Len(text) :
    /\ lit(text, i, word) > 0
    /\ (i = 1 \/ text[i - 1] \notin WordChars)
    /\ (i + Len(word) > Len(text) \/ text[i + Len(word)] \notin WordChars)

\* some line of the text is exactly this line
HasLine(text, line) == \E k \in 1..Len(split(text)) : split(text)[k] = line

\* the name ends with the suffix, in any letter case
EndsWithI(name, suffix) ==
  /\ Len(suffix) <= Len(name)
  /\ toLowerCase(SubSeq(name, Len(name) - Len(suffix) + 1, Len(name))) = toLowerCase(suffix)

\* the label 'belongs to' in two letter cases
BelongsToLabels == { <<"b", "e", "l", "o", "n", "g", "s", " ", "t", "o">>, <<"B", "E", "L", "O", "N", "G", "S", " ", "T", "O">> }

\* the names that are product, and those that are category, in any letter case
ProductNames == {n \in EntityNames : toLowerCase(n) = <<"p", "r", "o", "d", "u", "c", "t">>}
CategoryNames == {n \in EntityNames : toLowerCase(n) = <<"c", "a", "t", "e", "g", "o", "r", "y">>}

\* the relationship line with A on the left, B on the right and the label categorizes
Categorizes(a, b) == a \o <<" ", "|", "|", "-", "-", "o", "{", " ">> \o b \o <<" ", ":", " ", "c", "a", "t", "e", "g", "o", "r", "i", "z", "e", "s">>

\* ---------------------------------------------------------------------
\* Properties
\* ---------------------------------------------------------------------

\* C1: when the extracted text is an ER diagram, generateMermaidDiagram
\* returns the repaired text if the repaired text validates and the
\* original extracted text otherwise; so a valid original never comes back
\* invalid.
C1_RollbackInvariant ==
  (pc = "responded" /\ extracted \notin {Undefined, Null} /\ IsERText(extracted)) =>
    /\ Called("fixERSyntax")
    /\ ~outcome.threw
    /\ outcome.value = (IF validateMermaidSyntax(fixedCode) THEN fixedCode ELSE extracted)
    /\ (validateMermaidSyntax(extracted) => validateMermaidSyntax(outcome.value))

\* a valid ER text whose repair is invalid came back unrepaired
C1_Witness ==
  /\ pc = "responded"
  /\ extracted \notin {Undefined, Null}
  /\ IsERText(extracted)
  /\ validateMermaidSyntax(extracted)
  /\ ~validateMermaidSyntax(fixedCode)
  /\ outcome.value = extracted

\* C2: a success response carries mermaidCode only when that code validates;
\* when the code the service returned fails validation the response is the
\* failure 500 'Generated diagram code is invalid' without mermaidCode.
C2_SuccessOnlyWhenValid ==
  /\ (response.success \/ response.mermaidCode # Undefined) =>
       /\ response.status = 200
       /\ response.mermaidCode = outcome.value
       /\ validateMermaidSyntax(response.mermaidCode)
  /\ (pc = "responded" /\ rawText # Undefined /\ ~outcome.threw /\ ~validateMermaidSyntax(outcome.value)) =>
       /\ response.status = 500
       /\ ~response.success
       /\ response.error = "Generated diagram code is invalid"
       /\ response.mermaidCode = Undefined

\* the repaired and the original ER text both fail, the request fails
C2_Witness ==
  /\ pc = "responded"
  /\ extracted \notin {Undefined, Null}
  /\ IsERText(extracted)
  /\ ~validateMermaidSyntax(fixedCode)
  /\ ~validateMermaidSyntax(extracted)
  /\ response.status = 500
  /\ response.error = "Generated diagram code is invalid"

\* C3: extractMermaidCode fails exactly when the text without its fence
\* markers, trimmed, starts with none of the twelve declarations (letter
\* case ignored), and otherwise returns exactly that text.
C3_ExtractExactly ==
  fn = "extractMermaidCode" =>
    /\ (out = Null) <=> ~StartsWithRecognizedHeader(trim(stripFences(arg)))
    /\ out # Null => out = trim(stripFences(arg))

\* a text that names a declaration, but not at its start, is refused
C3_Witness ==
  /\ fn = "extractMermaidCode"
  /\ out = Null
  /\ includes(arg, <<"e", "r", "D", "i", "a", "g", "r", "a", "m">>)

\* C4: when extraction fails the service throws, substitutes nothing, runs
\* neither the ER repair nor the validation, and the route answers 500 with
\* success false.
C4_ExtractionFailure ==
  (pc = "responded" /\ rawText # Undefined /\ ~StartsWithRecognizedHeader(trim(stripFences(rawText)))) =>
    /\ outcome.threw
    /\ outcome.value = Undefined
    /\ ~Called("fixERSyntax")
    /\ ~Called("validateMermaidSyntax")
    /\ response.status = 500
    /\ ~response.success
    /\ response.mermaidCode = Undefined

\* the API answered with prose and the request failed with 500
C4_Witness ==
  /\ pc = "responded"
  /\ rawText # Undefined
  /\ extracted = Null
  /\ outcome.threw
  /\ response.status = 500

\* C5: with diagramType auto, a description holding an ER keyword or phrase
\* gets the ER guidance block, whatever class or sequence keywords it holds.
C5_ERFirst ==
  (fn = "buildMermaidPrompt" /\ arg.diagramType = "auto" /\ isERDescription(arg.description)) =>
    out.guidance = "ER"

\* a description with an ER and a class keyword was classified as ER
C5_Witness ==
  /\ fn = "buildMermaidPrompt"
  /\ arg.diagramType = "auto"
  /\ isERDescription(arg.description)
  /\ isClassDescription(arg.description)
  /\ out.guidance = "ER"

\* C6: a requested type other than auto decides the guidance block alone:
\* er, class and sequence give their block, flowchart, state and gantt give
\* none, whatever keywords the description holds.
C6_ExplicitTypeWins ==
  (fn = "buildMermaidPrompt" /\ arg.diagramType # "auto") =>
    /\ out.guidance = (CASE arg.diagramType = "er" -> "ER"
                         [] arg.diagramType = "class" -> "CLASS"
                         [] arg.diagramType = "sequence" -> "SEQUENCE"
                         [] OTHER -> "")
    /\ out.formatSelection = <<"User requested", arg.diagramType>>

\* a flowchart request with ER keywords in its description got no block
C6_Witness ==
  /\ fn = "buildMermaidPrompt"
  /\ arg.diagramType = "flowchart"
  /\ isERDescription(arg.description)
  /\ out.guidance = ""

\* C7: validateMermaidSyntax is false for an input that is empty or no
\* string, that starts with no recognised declaration, or that has fewer
\* than two non-blank lines.
C7_RejectsNonDiagrams ==
  (/\ fn = "validateMermaidSyntax"
   /\ \/ ~IsString(arg)
      \/ arg = <<>>
      \/ ~StartsWithRecognizedHeader(trim(arg))
      \/ NonBlankLineCount(arg) < 2) =>
    out = FALSE

\* the declaration gantt alone was rejected
C7_Witness ==
  /\ fn = "validateMermaidSyntax"
  /\ arg = <<"g", "a", "n", "t", "t">>
  /\ out = FALSE

\* C8: a text the extractor accepts, that is no ER diagram and has at least
\* two non-blank lines, is accepted by validateMermaidSyntax.
C8_AcceptedThenValid ==
  (fn = "extractMermaidCode" /\ out # Null /\ ~IsERText(out) /\ NonBlankLineCount(out) >= 2) =>
    validateMermaidSyntax(out)

\* C9 as stated: an ER text of at least two non-blank lines validates
\* exactly when the text after the header holds an identifier followed by an
\* opening brace or one of the operators ||--o{, ||--||, }o--o{.
C9_ExactlyThreeOperators ==
  (fn = "validateMermaidSyntax" /\ IsString(arg) /\ IsERText(arg) /\ NonBlankLineCount(arg) >= 2) =>
    (out <=> \/ ContainsWordThenBrace(ERBody(arg))
             \/ includes(ERBody(arg), OneToMany)
             \/ includes(ERBody(arg), OneToOne)
             \/ includes(ERBody(arg), ManyToMany))

\* C9 amended: an ER text of at least two non-blank lines validates exactly
\* when the trimmed text, header included, holds a word character followed
\* after optional whitespace by an opening brace, or holds ||-- or }o--, the
\* leading part of a relationship operator; no entity block is needed.
C9_LenientERCheck ==
  (fn = "validateMermaidSyntax" /\ IsString(arg) /\ IsERText(arg) /\ NonBlankLineCount(arg) >= 2) =>
    (out <=> \/ ContainsWordThenBrace(trim(arg))
             \/ includes(arg, <<"|", "|", "-", "-">>)
             \/ includes(arg, <<"}", "o", "-", "-">>))

\* an ER text with a relationship operator and no brace at all is valid
C9_Witness ==
  /\ fn = "validateMermaidSyntax"
  /\ IsString(arg)
  /\ IsERText(arg)
  /\ includes(arg, OneToOne)
  /\ ~includes(arg, <<"{">>)
  /\ out = TRUE

\* C10: extracting from a text wrapped in a code fence, untagged or tagged
\* mermaid, gives what extracting from the text itself gives.
C10_FenceTransparent ==
  (fn = "extractFenced" /\ out.tag \in FenceTags) => out.result = extractMermaidCode(arg)

\* a diagram inside a mermaid fence was extracted
C10_Witness ==
  /\ fn = "extractFenced"
  /\ startsWith(out.text, FenceMermaid)
  /\ out.result # Null
  /\ out.result = trim(arg)

\* C11: the repair is idempotent: applied to its own result it returns that
\* result unchanged, for every ER text and in particular for those with a
\* 'belongs to' label.
C11_Idempotent ==
  fn = "fixERSyntaxAgain" => out.second = out.first

C13_AtMostOneCall ==
  /\ ApiCalls <= 1
  /\ (pc = "responded" /\ rawText = Undefined /\ ApiCalls = 1) =>
       (outcome.threw /\ startsWith(outcome.message, ErrorPrefix) /\ ~response.success)
  /\ (pc = "responded" /\ extracted = Null) =>
       (outcome.threw /\ outcome.message = ErrorPrefix \o ExtractionError /\ ~response.success)
  /\ (pc = "responded" /\ ~outcome.threw /\ ApiCalls = 1 /\ ~validateMermaidSyntax(outcome.value)) =>
       (response.status = 500 /\ ~response.success)

\* the API rejected the only call of the request and the route answered the failure
C13_Witness ==
  /\ pc = "responded"
  /\ rawText = Undefined
  /\ ApiCalls = 1
  /\ outcome.threw
  /\ response.status = 500

\* C14: a body with no description, a description shorter than 10 or longer
\* than 2000 characters, or a diagramType outside the seven is answered
\* with 400 'Validation failed', and nothing of the service is called for it.
C14_ValidationPrecedes ==
  (pc # "idle" /\ MustBeRejected(requestBody)) =>
    /\ pc = "responded"
    /\ response.status = 400
    /\ response.error = "Validation failed"
    /\ ~response.success
    /\ calls = <<>>
    /\ prompt = NoPrompt

\* a description of nine characters with a valid type was answered with 400
C14_Witness ==
  /\ pc = "responded"
  /\ requestBody.description = <<"T", "o", "o", " ", "s", "h", "o", "r", "t">>
  /\ requestBody.diagramType = "flowchart"
  /\ response.status = 400
  /\ calls = <<>>

\* C15 as stated: the description handed to generateMermaidDiagram, after
\* validation and sanitization, is between 10 and 2000 characters long.
C15_LengthBounds ==
  Called("generateContent") =>
    /\ Len(sanitizedDescription) >= 10
    /\ Len(sanitizedDescription) <= 2000
    /\ prompt.description = sanitizedDescription

\* C16: POST /validate answers 400 with success false exactly when
\* mermaidCode is absent, empty or not a string, and otherwise 200 with
\* success true and isValid the validator's verdict on the code.
C16_ValidateRoute ==
  fn = "postValidate" =>
    IF arg \in NonStrings \/ arg = <<>>
      THEN out.status = 400 /\ ~out.success
      ELSE out.status = 200 /\ out.success /\ out.isValid = validateMermaidSyntax(arg)

\* code that is a string but no diagram was answered 200 with isValid false
C16_Witness ==
  /\ fn = "postValidate"
  /\ arg = <<"d", "i", "a", "g", "r", "a", "m">>
  /\ out.status = 200
  /\ out.success
  /\ out.isValid = FALSE

\* C17: a failed generation is answered 401 'Authentication failed' when the
\* error message contains 'API key', else 429 'Rate limit exceeded' when it
\* contains 'quota' or 'limit', else 500 'Internal server error'; and every
\* failure response has success false and no mermaidCode.
C17_FailureMapping ==
  /\ (pc = "responded" /\ outcome.threw) =>
       IF includes(outcome.message, <<"A", "P", "I", " ", "k", "e", "y">>)
         THEN response.status = 401 /\ response.error = "Authentication failed"
       ELSE IF includes(outcome.message, <<"q", "u", "o", "t", "a">>) \/ includes(outcome.message, <<"l", "i", "m", "i", "t">>)
         THEN response.status = 429 /\ response.error = "Rate limit exceeded"
       ELSE response.status = 500 /\ response.error = "Internal server error"
  /\ (pc = "responded" /\ response.status # 200) =>
       (~response.success /\ response.mermaidCode = Undefined)

\* a message that names both the API key and the quota was answered 401
C17_Witness ==
  /\ pc = "responded"
  /\ outcome.threw
  /\ includes(outcome.message, <<"A", "P", "I", " ", "k", "e", "y">>)
  /\ includes(outcome.message, <<"q", "u", "o", "t", "a">>)
  /\ response.status = 401

\* C18: with diagramType auto and no ER keyword in the description, a class
\* keyword gives the class block even beside sequence keywords, sequence
\* keywords alone give the sequence block, and no keyword at all gives no
\* block and the auto-detect instruction.
C18_ClassBeforeSequence ==
  (fn = "buildMermaidPrompt" /\ arg.diagramType = "auto" /\ ~isERDescription(arg.description)) =>
    /\ isClassDescription(arg.description) => out.guidance = "CLASS"
    /\ (~isClassDescription(arg.description) /\ isSequenceDescription(arg.description)) => out.guidance = "SEQUENCE"
    /\ (~isClassDescription(arg.description) /\ ~isSequenceDescription(arg.description)) =>
         (out.guidance = "" /\ out.formatSelection = <<"Auto-detect">>)

\* a description with a class and a sequence keyword and no ER keyword got the class block
C18_Witness ==
  /\ fn = "buildMermaidPrompt"
  /\ arg.diagramType = "auto"
  /\ ~isERDescription(arg.description)
  /\ isClassDescription(arg.description)
  /\ isSequenceDescription(arg.description)
  /\ out.guidance = "CLASS"

C20_ProductCategoryReversed ==
  /\ \A p \in ProductNames, c \in CategoryNames, l \in Labels, t \in Tails :
       (fn = "fixERSyntax" /\ arg = relationText(p, c, l, t)) => HasLine(out, Categorizes(c, p))
  /\ (fn = "fixERSyntax" /\ arg = <<"e", "r", "D", "i", "a", "g", "r", "a", "m", "\n", " ", " ", "P", "R", "O", "D", "U", "C", "T", " ", "|", "|", "-", "-", "o", "{", " ", "C", "A", "T", "E", "G", "O", "R", "Y", " ", ":", " ", "b", "e", "l", "o", "n", "g", "s", " ", "t", "o">>) =>
       /\ out = <<"e", "r", "D", "i", "a", "g", "r", "a", "m", "\n", "C", "A", "T", "E", "G", "O", "R", "Y", " ", "|", "|", "-", "-", "o", "{", " ", "P", "R", "O", "D", "U", "C", "T", " ", ":", " ", "c", "a", "t", "e", "g", "o", "r", "i", "z", "e", "s">>
       /\ validateMermaidSyntax(out)

\* C21 as stated: for all identifiers X and Y the repair turns the line
\* 'X : belongs toY' into the line 'Y ||--o{ X : categorizes'.
C21_MalformedPhraseRepaired ==
  \A x \in EntityNames, y \in EntityNames, t \in Tails :
    (fn = "fixERSyntax" /\ arg = malformedText(x, y, t)) => HasLine(out, Categorizes(y, x))

\* C22 as stated: the repaired text holds no label 'belongs to' and no label
\* 'written by', whatever the input was.
C22_NoBelongsToNoWrittenBy ==
  fn = "fixERSyntax" =>
    /\ ~HasLabel(out, <<"b", "e", "l", "o", "n", "g", "s">>, <<"t", "o">>)
    /\ ~HasLabel(out, <<"w", "r", "i", "t", "t", "e", "n">>, <<"b", "y">>)

\* C23 as stated: the repaired text holds no standalone word IDENTIFYING,
\* wherever the word stood in the input.
C23_NoIdentifying ==
  fn = "fixERSyntax" => ~HasStandaloneWord(out, <<"I", "D", "E", "N", "T", "I", "F", "Y", "I", "N", "G">>)

\* C24 as stated: the repaired text has as many non-blank lines as the input.
C24_LinesPreserved ==
  fn = "fixERSyntax" => NonBlankLineCount(out) = NonBlankLineCount(arg)

\* C25: an extracted text whose header is not erDiagram is returned as
\* extracted; the repair does not run on it, whatever it holds.
C25_RepairOnlyForER ==
  (pc = "responded" /\ extracted \notin {Undefined, Null} /\ ~IsERText(extracted)) =>
    /\ ~outcome.threw
    /\ outcome.value = extracted
    /\ ~Called("fixERSyntax")
    /\ fixedCode = Undefined

\* a flowchart with a PRODUCT ||--o{ CATEGORY line labelled 'belongs to' came back as extracted
C25_Witness ==
  /\ pc = "responded"
  /\ extracted = <<"g", "r", "a", "p", "h", "\n", " ", " ", "P", "R", "O", "D", "U", "C", "T", " ", "|", "|", "-", "-", "o", "{", " ", "C", "A", "T", "E", "G", "O", "R", "Y", " ", ":", " ", "b", "e", "l", "o", "n", "g", "s", " ", "t", "o">>
  /\ outcome.value = extracted
  /\ fixERSyntax(extracted) # extracted

\* C26 as stated: for every language tag, extracting from a text the
\* extractor accepts, wrapped in a fence with that tag, gives what
\* extracting from the text itself gives.
C26_AnyTagTransparent ==
  (fn = "extractFenced" /\ extractMermaidCode(arg) # Null) => out.result = extractMermaidCode(arg)

\* C30: a request to POST /generate or POST /validate is answered exactly
\* once: never twice, and once on every path that has run to its end
\* (rejected body, success, invalid generated code, thrown error, and both
\* answers of /validate); before that, and while the generation call is
\* pending, nothing has been sent.
C30_ExactlyOneResponse ==
  /\ sent <= 1
  /\ (pc = "responded" \/ fn = "postValidate") => sent = 1
  /\ (pc \in {"idle", "awaiting"} /\ fn = "") => sent = 0
  /\ (sent = 1 /\ fn = "") => response.status \in {200, 400, 401, 429, 500}
  /\ (sent = 1 /\ fn = "postValidate") => out.status \in {200, 400}

\* the generated code failed the route's validation and the request was answered once, with 500
C30_Witness ==
  /\ pc = "responded"
  /\ response.error = "Generated diagram code is invalid"
  /\ sent = 1

\* C29: one run of the setup wizard writes the .env file at most once, and
\* only after a non-blank API key was entered and, when a .env file was
\* there, the overwrite question was answered y or Y; no other step changes
\* the .env file or creates the logs directory, so a run that was declined
\* or given a blank key ends with the files as they were.
C29_WriteOnlyWhenConfirmed ==
  /\ [](envWrites <= 1)
  /\ [][(envFile' # envFile \/ envWrites' # envWrites \/ logsDir' # logsDir) =>
          /\ envWrites = 0 /\ envWrites' = 1
          /\ IsString(answers.apiKey) /\ \E i \in 1..Len(answers.apiKey) : answers.apiKey[i] \notin SpaceChars
          /\ envFile.exists => answers.overwrite \in { <<"y">>, <<"Y">> }]_vars
  /\ [][(wpc' = "closed" /\ (answers'.overwrite \notin { <<"y">>, <<"Y">>, Undefined } \/ (IsString(answers'.apiKey) /\ trim(answers'.apiKey) = <<>>)))
          => (envFile' = envFile /\ logsDir' = logsDir /\ envWrites' = 0)]_vars

\* an existing .env file was overwritten once after the answer Y
C29_Witness ==
  /\ wpc = "closed"
  /\ answers.overwrite = <<"Y">>
  /\ envWrites = 1
  /\ envFile.apiKey = answers.apiKey
  /\ envFile # OldEnv

\* C27 as stated: while a generate request is in flight the Generate button
\* is disabled and no second request is in flight, whichever way the
\* requests were submitted.
C27_OneRequestInFlight ==
  /\ Cardinality(InFlight(requests)) <= 1
  /\ InFlight(requests) # {} => ui.disabled

\* C28: a client in the loading state leaves it once the pending promises
\* settle and then shows the success or the error panel with the Generate
\* button enabled; and never more than one of the three panels is shown.
C28_LoadingEnds ==
  /\ [](Cardinality({p \in {"loadingState", "errorState", "successState"} : ui[p] = "block"}) <= 1)
  /\ (ui.loadingState = "block") ~>
       (/\ ui.loadingState = "none"
        /\ ~ui.disabled
        /\ (ui.errorState = "block" \/ ui.successState = "block"))

\* a request whose rendering failed in both ways ended in the error panel with the button enabled
C28_Witness ==
  /\ requests[1] = "failed"
  /\ InFlight(requests) = {}
  /\ ui.diagramPreview = "div.mermaid"
  /\ ui.errorMessage = "Failed to render diagram. Error: mermaid.init"
  /\ ui.loadingState = "none"
  /\ ui.errorState = "block"
  /\ ui.successState = "none"
  /\ ~ui.disabled
====
